---- MODULE Spec2Model ----
(***************************************************************************)
(* The run-scoped result store of the dashboard (dashboard/lib/store.ts,   *)
(* Neon Postgres version) and the routes that call it.  The backing table  *)
(* rlm_kv is the function kv from key strings to JSON values; a key that   *)
(* has no row is outside DOMAIN kv.  Every exported store function is an   *)
(* operator from a table (and the clock) to a table and a return value,    *)
(* composed exactly as the code awaits its calls; an action runs one       *)
(* exported function or one route handler from start to end.               *)
(***************************************************************************)
EXTENDS Integers, Sequences, FiniteSets, TLC

VARIABLES kv,      \* the rows of rlm_kv: key -> value
          now,     \* Date.now(), in milliseconds
          last,    \* the handler that ran last: its name, arguments and return value
          pending  \* the locals of the requests in flight

vars == <<kv, now, last, pending>>

-----------------------------------------------------------------------------
(* Bounds *)

\* The clock runs over 1..MaxTime, and createRunId() yields the decimal
\* string of the clock.
MaxTime == 2

\* The pr_number values evaluations carry are 1..MaxPr.
MaxPr == 2

Times == 1..MaxTime
Prs == 1..MaxPr

-----------------------------------------------------------------------------
(* Keys *)

RUNS_KEY == "rlm:runs"
CURRENT_RUN_ID_KEY == "rlm:current_run_id"
LEGACY_RUN_ID == "legacy"
LEGACY_SUMMARY_KEY == "rlm:summary"
LEGACY_EVALUATIONS_KEY == "rlm:evaluations"
LEGACY_CLUSTERS_KEY == "rlm:clusters"
LEGACY_RANKING_KEY == "rlm:ranking"
LEGACY_AGENT_TRACE_KEY == "rlm:agent_trace"

\* JavaScript's null, as a return value or a fallback.
Null == "<null>"

runKey(runId, kind) == "rlm:run:" \o runId \o ":" \o kind

legacyKey(kind) ==
    CASE kind = "summary" -> LEGACY_SUMMARY_KEY
      [] kind = "evaluations" -> LEGACY_EVALUATIONS_KEY
      [] kind = "clusters" -> LEGACY_CLUSTERS_KEY
      [] kind = "ranking" -> LEGACY_RANKING_KEY
      [] kind = "agent_trace" -> LEGACY_AGENT_TRACE_KEY

isLegacyScope(runId) == runId = Null \/ runId = "" \/ runId = "latest" \/ runId = LEGACY_RUN_ID

-----------------------------------------------------------------------------
(* The KV backend *)

\* What a request sees of the table while the backend is unreachable or
\* DATABASE_URL is unset: no key has a row, so readKV returns its fallback
\* (getSQL() is null, or the query throws and the catch returns fallback).
Unreachable == [key \in {"<unreachable>"} |-> TRUE]

IsUnreachable(s) == "<unreachable>" \in DOMAIN s

HasKey(s, key) == key \in DOMAIN s

readKV(s, key, fallback) == IF key \in DOMAIN s THEN s[key] ELSE fallback

\* writeKV without its "if (!sql) return" and its catch.
writeKV_Unguarded(s, key, value) ==
    [k \in DOMAIN s \cup {key} |-> IF k = key THEN value ELSE s[k]]

writeKV(s, key, value) ==
    IF IsUnreachable(s) THEN s
    ELSE [k \in DOMAIN s \cup {key} |-> IF k = key THEN value ELSE s[k]]

deleteKV(s, key) == [k \in DOMAIN s \ {key} |-> s[k]]

-----------------------------------------------------------------------------
(* Sequences *)

Range(q) == {q[i] : i \in 1..Len(q)}

Count(q, x) == Cardinality({i \in 1..Len(q) : q[i] = x})

RemoveAt(q, i) == SubSeq(q, 1, i - 1) \o SubSeq(q, i + 1, Len(q))

\* filter that drops nothing.
FilterOut_Keep(q, x) == q

FilterOut(q, x) == SelectSeq(q, LAMBDA y : y # x)

\* Array.prototype.sort with the comparator (a, b) => b.k - a.k: stable, so
\* the elements come out by descending k and, among equal k, in their
\* original order.  q is a sequence of records with an integer field k.
RECURSIVE SortDescByK(_)
SortDescByK(q) ==
    IF q = <<>> THEN <<>>
    ELSE LET m == CHOOSE x \in {q[i].k : i \in 1..Len(q)} :
                      \A j \in 1..Len(q) : q[j].k <= x
             i == CHOOSE i0 \in 1..Len(q) :
                      /\ q[i0].k = m
                      /\ \A j \in 1..(i0 - 1) : q[j].k # m
         IN  <<q[i]>> \o SortDescByK(RemoveAt(q, i))

-----------------------------------------------------------------------------
(* Run ids and timestamps *)

\* String(Date.now())
createRunId(t) == ToString(t)

\* Number(runId) is finite exactly for the decimal strings.
IsNumeric(runId) == \E t \in 0..MaxTime : ToString(t) = runId

Number(runId) == CHOOSE t \in 0..MaxTime : ToString(t) = runId

\* A timestamp is the instant its ISO string denotes.  "legacy" is neither a
\* number nor a date, so it takes the fallback.
toTimestamp(runId, fallback) == IF IsNumeric(runId) THEN Number(runId) ELSE fallback

\* The run ids callers pass explicitly: the legacy id and two timestamps.
NamespacedRunIds == {"1", "2"}
RunIds == {LEGACY_RUN_ID} \cup NamespacedRunIds

-----------------------------------------------------------------------------
(* Legacy migration and the registry *)

\* hasLegacyData that counts a stored empty list as data.
hasLegacyData_AnyRow(s) ==
    \/ HasKey(s, LEGACY_SUMMARY_KEY)
    \/ HasKey(s, LEGACY_EVALUATIONS_KEY)
    \/ HasKey(s, LEGACY_CLUSTERS_KEY)
    \/ HasKey(s, LEGACY_RANKING_KEY)
    \/ HasKey(s, LEGACY_AGENT_TRACE_KEY)

hasLegacyData(s) ==
    \/ HasKey(s, LEGACY_SUMMARY_KEY)
    \/ Len(readKV(s, LEGACY_EVALUATIONS_KEY, <<>>)) > 0
    \/ Len(readKV(s, LEGACY_CLUSTERS_KEY, <<>>)) > 0
    \/ HasKey(s, LEGACY_RANKING_KEY)
    \/ Len(readKV(s, LEGACY_AGENT_TRACE_KEY, <<>>)) > 0

\* ensureLegacyRunMigration without its "existing.length > 0" return.
ensureLegacyRunMigration_Rerun(s, t) ==
    IF ~hasLegacyData(s) THEN s
    ELSE writeKV(writeKV(s, RUNS_KEY, <<LEGACY_RUN_ID>>),
                 runKey(LEGACY_RUN_ID, "meta"),
                 [id |-> LEGACY_RUN_ID, timestamp |-> t])

ensureLegacyRunMigration(s, t) ==
    LET existing == readKV(s, RUNS_KEY, <<>>)
    IN  IF Len(existing) > 0 THEN s
        ELSE IF ~hasLegacyData(s) THEN s
        ELSE writeKV(writeKV(s, RUNS_KEY, <<LEGACY_RUN_ID>>),
                     runKey(LEGACY_RUN_ID, "meta"),
                     [id |-> LEGACY_RUN_ID, timestamp |-> t])

\* Each function that returns a value and may write returns [kv, ret].
getRunIds(s, t) ==
    LET s1 == ensureLegacyRunMigration(s, t)
    IN  [kv |-> s1, ret |-> readKV(s1, RUNS_KEY, <<>>)]

\* ensureRun without its "existing.includes(runId)" test.
ensureRun_NoIncludes(s, runId, t) ==
    LET g == getRunIds(s, t)
        s2 == writeKV(g.kv, RUNS_KEY, Append(g.ret, runId))
    IN  IF ~HasKey(s2, runKey(runId, "meta"))
        THEN writeKV(s2, runKey(runId, "meta"),
                     [id |-> runId, timestamp |-> toTimestamp(runId, t), status |-> "running"])
        ELSE s2

\* ensureRun without its "if (!currentMeta)" test.
ensureRun_AlwaysMeta(s, runId, t) ==
    LET g == getRunIds(s, t)
        s2 == IF runId \notin Range(g.ret)
              THEN writeKV(g.kv, RUNS_KEY, Append(g.ret, runId))
              ELSE g.kv
    IN  writeKV(s2, runKey(runId, "meta"),
                [id |-> runId, timestamp |-> toTimestamp(runId, t), status |-> "running"])

ensureRun(s, runId, t) ==
    LET g == getRunIds(s, t)
        existing == g.ret
        s2 == IF runId \notin Range(existing)
              THEN writeKV(g.kv, RUNS_KEY, Append(existing, runId))
              ELSE g.kv
    IN  IF ~HasKey(s2, runKey(runId, "meta"))
        THEN writeKV(s2, runKey(runId, "meta"),
                     [id |-> runId, timestamp |-> toTimestamp(runId, t), status |-> "running"])
        ELSE s2

clearCurrentRunId(s) == deleteKV(s, CURRENT_RUN_ID_KEY)

\* getCurrentRunId without its registry check.
getCurrentRunId_NoCheck(s, t) == [kv |-> s, ret |-> readKV(s, CURRENT_RUN_ID_KEY, Null)]

getCurrentRunId(s, t) ==
    LET runId == readKV(s, CURRENT_RUN_ID_KEY, Null)
    IN  IF runId = Null THEN [kv |-> s, ret |-> Null]
        ELSE LET g == getRunIds(s, t)
             IN  IF runId \in Range(g.ret) THEN [kv |-> g.kv, ret |-> runId]
                 ELSE [kv |-> clearCurrentRunId(g.kv), ret |-> Null]

\* getOrCreateCurrentRunId without its write of the pointer.
getOrCreateCurrentRunId_NoPointer(s, t) ==
    LET c == getCurrentRunId(s, t)
    IN  IF c.ret # Null THEN c
        ELSE [kv |-> ensureRun(c.kv, createRunId(t), t), ret |-> createRunId(t)]

getOrCreateCurrentRunId(s, t) ==
    LET c == getCurrentRunId(s, t)
    IN  IF c.ret # Null THEN c
        ELSE LET runId == createRunId(t)
             IN  [kv |-> writeKV(ensureRun(c.kv, runId, t), CURRENT_RUN_ID_KEY, runId),
                  ret |-> runId]

-----------------------------------------------------------------------------
(* Evaluations *)

getEvaluations(s, runId) ==
    IF isLegacyScope(runId) THEN readKV(s, legacyKey("evaluations"), <<>>)
    ELSE readKV(s, runKey(runId, "evaluations"), <<>>)

setEvaluations(s, runId, data, t) ==
    writeKV(ensureRun(s, runId, t), runKey(runId, "evaluations"), data)

setLegacyEvaluations(s, data) == writeKV(s, legacyKey("evaluations"), data)

\* existing.findIndex(e => e.pr_number === ev.pr_number): 0 stands for -1.
findIndex(existing, pr) ==
    IF \E i \in 1..Len(existing) : existing[i].pr_number = pr
    THEN CHOOSE i \in 1..Len(existing) :
             /\ existing[i].pr_number = pr
             /\ \A j \in 1..(i - 1) : existing[j].pr_number # pr
    ELSE 0

\* An upsert that pushes whether or not the pr_number is found.
upsert_Push(existing, ev) == Append(existing, ev)

\* if (idx >= 0) existing[idx] = ev; else existing.push(ev);
upsert(existing, ev) ==
    LET idx == findIndex(existing, ev.pr_number)
    IN  IF idx > 0 THEN [existing EXCEPT ![idx] = ev] ELSE Append(existing, ev)

appendEvaluation(s, runId, ev, t) ==
    setEvaluations(s, runId, upsert(getEvaluations(s, runId), ev), t)

appendLegacyEvaluation(s, ev) ==
    setLegacyEvaluations(s, upsert(getEvaluations(s, LEGACY_RUN_ID), ev))

getEvaluationCount(s, runId) == Len(getEvaluations(s, runId))

-----------------------------------------------------------------------------
(* Listing, latest run, deletion and cleanup *)

\* The metadata of every registered run, newest timestamp first.  g is what
\* getRunIds() returned.
sortRuns(g) ==
    LET metaOf(id) == IF HasKey(g.kv, runKey(id, "meta"))
                      THEN g.kv[runKey(id, "meta")]
                      ELSE [id |-> id, timestamp |-> toTimestamp(id, 0)]
        sorted == SortDescByK([i \in 1..Len(g.ret) |->
                                  [k |-> metaOf(g.ret[i]).timestamp, v |-> metaOf(g.ret[i])]])
    IN  [kv |-> g.kv, ret |-> [i \in 1..Len(sorted) |-> sorted[i].v]]

getRuns(s, t) == sortRuns(getRunIds(s, t))

\* runs.map(async (run) => ({ id: run.id, count: await getEvaluationCount(run.id) }))
runCounts(s, runs) ==
    [i \in 1..Len(runs) |-> [id |-> runs[i].id, count |-> getEvaluationCount(s, runs[i].id)]]

\* The reduce with ">=" for ">": the last run wins a tie.
RECURSIVE reduceMax_LastWins(_, _, _)
reduceMax_LastWins(counts, i, winner) ==
    IF i > Len(counts) THEN winner
    ELSE reduceMax_LastWins(counts, i + 1,
                            IF counts[i].count >= winner.count THEN counts[i] ELSE winner)

\* counts.reduce((winner, current) => current.count > winner.count ? current : winner, init)
RECURSIVE reduceMax(_, _, _)
reduceMax(counts, i, winner) ==
    IF i > Len(counts) THEN winner
    ELSE reduceMax(counts, i + 1, IF counts[i].count > winner.count THEN counts[i] ELSE winner)

\* getLatestRunId() once getRuns() has returned r.
pickLatest(r) ==
    IF Len(r.ret) = 0 THEN [kv |-> r.kv, ret |-> Null]
    ELSE LET best == reduceMax(runCounts(r.kv, r.ret), 1, [id |-> r.ret[1].id, count |-> -1])
         IN  IF best.count > 0 THEN [kv |-> r.kv, ret |-> best.id]
             ELSE IF \E i \in 1..Len(r.ret) : r.ret[i].id = LEGACY_RUN_ID
                  THEN [kv |-> r.kv, ret |-> LEGACY_RUN_ID]
             ELSE [kv |-> r.kv, ret |-> r.ret[1].id]

getLatestRunId(s, t) == pickLatest(getRuns(s, t))

DataKinds == {"meta", "prompt_bundle", "summary", "evaluations", "clusters", "ranking", "agent_trace"}

\* A Promise.all of deleteKV calls none of which deletes its row.
deleteKeys_None(s, keys) == s

RECURSIVE deleteKeys(_, _)
deleteKeys(s, keys) ==
    IF keys = {} THEN s
    ELSE LET key == CHOOSE x \in keys : TRUE
         IN  deleteKeys(deleteKV(s, key), keys \ {key})

\* deleteRun without its final registry write.
deleteRun_NoRegistryWrite(s, runId, t) ==
    IF runId \notin Range(getRunIds(s, t).ret) THEN getRunIds(s, t).kv
    ELSE deleteKeys(getRunIds(s, t).kv, {runKey(runId, kind) : kind \in DataKinds})

deleteRun(s, runId, t) ==
    LET g == getRunIds(s, t)
        runIds == g.ret
    IN  IF runId \notin Range(runIds) THEN g.kv
        ELSE LET s2 == IF runId = LEGACY_RUN_ID
                       THEN deleteKeys(g.kv, {LEGACY_SUMMARY_KEY, LEGACY_EVALUATIONS_KEY,
                                              LEGACY_CLUSTERS_KEY, LEGACY_RANKING_KEY,
                                              LEGACY_AGENT_TRACE_KEY})
                       ELSE deleteKeys(g.kv, {runKey(runId, kind) : kind \in DataKinds})
             IN  writeKV(s2, RUNS_KEY, FilterOut(runIds, runId))

\* The delete loop without its "keep.has(run.id)" test.
RECURSIVE deleteLoop_NoKeep(_, _, _, _, _, _)
deleteLoop_NoKeep(s, runs, i, keep, deleted, t) ==
    IF i > Len(runs) THEN [kv |-> s, deleted |-> deleted]
    ELSE deleteLoop_NoKeep(deleteRun(s, runs[i].id, t), runs, i + 1, keep,
                           Append(deleted, runs[i].id), t)

\* for (const run of runs) { if (keep.has(run.id)) continue; await deleteRun(run.id); deleted.push(run.id); }
RECURSIVE deleteLoop(_, _, _, _, _, _)
deleteLoop(s, runs, i, keep, deleted, t) ==
    IF i > Len(runs) THEN [kv |-> s, deleted |-> deleted]
    ELSE IF runs[i].id \in keep THEN deleteLoop(s, runs, i + 1, keep, deleted, t)
    ELSE deleteLoop(deleteRun(s, runs[i].id, t), runs, i + 1, keep, Append(deleted, runs[i].id), t)

\* const legacyDataRun = runCounts.reduce((best, cur) => cur.count > best.count ? cur : best);
legacyDataRun_LastWins(counts) == reduceMax_LastWins(counts, 2, counts[1])

legacyDataRun(counts) == reduceMax(counts, 2, counts[1])

\* const keep = new Set([legacyDataRun.id]); if (bestRunId) keep.add(bestRunId);
\* in insertion order, as Array.from(keep) lists it.
keepOf(legacyId, bestRunId) ==
    <<legacyId>> \o (IF bestRunId # Null /\ bestRunId # legacyId THEN <<bestRunId>> ELSE <<>>)

\* The locals of cleanupRuns() at the end of its delete loop, d being what
\* the loop returned.
cleanupLocals(d, legacyId, bestRunId) ==
    [kv |-> d.kv, empty |-> FALSE,
     legacy_run_id |-> legacyId, best_run_id |-> bestRunId,
     kept_run_ids |-> keepOf(legacyId, bestRunId), deleted_run_ids |-> d.deleted]

\* The delete loop, b being what getLatestRunId() returned.
cleanupLoop(runs, legacyId, b, t) ==
    cleanupLocals(deleteLoop(b.kv, runs, 1, Range(keepOf(legacyId, b.ret)), <<>>, t),
                  legacyId, b.ret)

\* cleanupRuns() once getRuns() has returned r.
cleanupFrom(r, t) ==
    IF Len(r.ret) = 0
    THEN [kv |-> r.kv, empty |-> TRUE]
    ELSE cleanupLoop(r.ret, legacyDataRun(runCounts(r.kv, r.ret)).id,
                     getLatestRunId(r.kv, t), t)

\* cleanupRuns() up to the end of its delete loop.  empty: no run was
\* registered and the function returns at once.
cleanupDelete(s, t) == cleanupFrom(getRuns(s, t), t)

\* The rest of cleanupRuns(): the pointer and the result.  loc holds the
\* locals that cleanupDelete left.
repoint(c, keep, loc) ==
    [kv |-> IF c.ret # Null /\ c.ret \notin keep
            THEN IF loc.best_run_id # Null /\ loc.best_run_id \in keep
                 THEN writeKV(c.kv, CURRENT_RUN_ID_KEY, loc.best_run_id)
                 ELSE clearCurrentRunId(c.kv)
            ELSE c.kv,
     ret |-> [legacy_run_id |-> loc.legacy_run_id, best_run_id |-> loc.best_run_id,
              kept_run_ids |-> loc.kept_run_ids, deleted_run_ids |-> loc.deleted_run_ids]]

cleanupPointer(s, loc, t) == repoint(getCurrentRunId(s, t), Range(loc.kept_run_ids), loc)

cleanupFinish(d, t) ==
    IF d.empty
    THEN [kv |-> d.kv,
          ret |-> [legacy_run_id |-> Null, best_run_id |-> Null,
                   kept_run_ids |-> <<>>, deleted_run_ids |-> <<>>]]
    ELSE cleanupPointer(d.kv, d, t)

cleanupRuns(s, t) == cleanupFinish(cleanupDelete(s, t), t)

\* Called without initialMeta; preferredRunId is Null when the caller gives none.
startNewCurrentRun(s, preferredRunId, t) ==
    LET runId == IF preferredRunId # Null /\ preferredRunId # ""
                 THEN preferredRunId ELSE createRunId(t)
    IN  [kv |-> writeKV(ensureRun(s, runId, t), CURRENT_RUN_ID_KEY, runId), ret |-> runId]

-----------------------------------------------------------------------------
(* The other collections and the push route *)

\* { ...obj, ...patch }: the fields of patch over those of obj.
spread(obj, patch) ==
    [f \in DOMAIN obj \cup DOMAIN patch |-> IF f \in DOMAIN patch THEN patch[f] ELSE obj[f]]

\* data.last_updated = new Date().toISOString(), then the write.
setSummary(s, runId, data, t) ==
    writeKV(ensureRun(s, runId, t), runKey(runId, "summary"),
            spread(data, [last_updated |-> t]))

setClusters(s, runId, data, t) == writeKV(ensureRun(s, runId, t), runKey(runId, "clusters"), data)

setRanking(s, runId, data, t) == writeKV(ensureRun(s, runId, t), runKey(runId, "ranking"), data)

setAgentTrace(s, runId, data, t) ==
    writeKV(ensureRun(s, runId, t), runKey(runId, "agent_trace"), data)

\* for (const ev of data) await appendEvaluation(runId, ev);
RECURSIVE appendAll(_, _, _, _, _)
appendAll(s, runId, data, i, t) ==
    IF i > Len(data) THEN s
    ELSE appendAll(appendEvaluation(s, runId, data[i], t), runId, data, i + 1, t)

\* POST /api/push.  secretSet: PUSH_SECRET is configured; authOk: the
\* Authorization header is "Bearer <secret>"; body.run_id is Null when the
\* body has no non-blank string run_id; a body without data has no data field.
pushPOST(s, secretSet, authOk, body, t) ==
    IF secretSet /\ ~authOk THEN [kv |-> s, ret |-> [status |-> 401, run_id |-> Null]]
    ELSE LET runId == IF body.run_id # Null THEN body.run_id ELSE createRunId(t)
             ok(s2) == [kv |-> s2, ret |-> [status |-> 200, run_id |-> runId]]
             \* setSummary(runId, undefined): data.last_updated = ... throws
             \* after the awaited ensureRun(runId); the response is a 500.
             thrown(s2) == [kv |-> s2, ret |-> [status |-> 500, run_id |-> Null]]
         IN  CASE body.type = "summary" ->
                      IF "data" \in DOMAIN body THEN ok(setSummary(s, runId, body.data, t))
                      ELSE thrown(ensureRun(s, runId, t))
               [] body.type = "evaluation" -> ok(appendEvaluation(s, runId, body.data, t))
               [] body.type = "evaluations_batch" -> ok(appendAll(s, runId, body.data, 1, t))
               [] body.type = "clusters" -> ok(setClusters(s, runId, body.data, t))
               [] body.type = "ranking" -> ok(setRanking(s, runId, body.data, t))
               [] body.type = "trace" -> ok(setAgentTrace(s, runId, body.data, t))
               [] OTHER -> [kv |-> s, ret |-> [status |-> 400, run_id |-> Null]]

\* POST /api/trace.  body.trace is <<steps>> when the body is an array or
\* carries an array as trace, and <<>> when it does not.
tracePOST(s, secretSet, authOk, body, t) ==
    IF secretSet /\ ~authOk THEN [kv |-> s, ret |-> [status |-> 401, run_id |-> Null]]
    ELSE LET r == IF body.run_id # Null THEN [kv |-> s, ret |-> body.run_id]
                  ELSE getOrCreateCurrentRunId(s, t)
         IN  IF body.trace = <<>>
             THEN [kv |-> r.kv, ret |-> [status |-> 400, run_id |-> Null]]
             ELSE [kv |-> setAgentTrace(r.kv, r.ret, body.trace[1], t),
                   ret |-> [status |-> 200, run_id |-> r.ret]]

\* POST /api/cleanup.
cleanupPOST(s, secretSet, authOk, t) ==
    IF secretSet /\ ~authOk THEN [kv |-> s, ret |-> [status |-> 401, run_id |-> Null]]
    ELSE [kv |-> cleanupRuns(s, t).kv, ret |-> [status |-> 200, run_id |-> Null]]

-----------------------------------------------------------------------------
(* The run comparator.  A value that may be null is a sequence: <<>> for
   null, <<v>> for v. *)

getRunMeta(s, runId) ==
    IF runId = "" \/ isLegacyScope(runId)
    THEN IF HasKey(s, runKey(LEGACY_RUN_ID, "meta")) THEN <<s[runKey(LEGACY_RUN_ID, "meta")]>> ELSE <<>>
    ELSE IF HasKey(s, runKey(runId, "meta")) THEN <<s[runKey(runId, "meta")]>> ELSE <<>>

\* The score with final_rank_score preferred to final_score.
comparisonScore_RankFirst(item) ==
    IF "final_rank_score" \in DOMAIN item THEN item.final_rank_score
    ELSE IF "final_score" \in DOMAIN item THEN item.final_score
    ELSE IF "score" \in DOMAIN item THEN item.score
    ELSE 0

\* maybe.final_score ?? item.final_rank_score ?? maybe.score, and 0 for none.
comparisonScore(item) ==
    IF "final_score" \in DOMAIN item THEN item.final_score
    ELSE IF "final_rank_score" \in DOMAIN item THEN item.final_rank_score
    ELSE IF "score" \in DOMAIN item THEN item.score
    ELSE 0

\* str.trim() is empty.
IsBlank(str) == str \in {"", " "}

comparisonJustification(item) ==
    IF "justification" \in DOMAIN item /\ ~IsBlank(item.justification) THEN item.justification
    ELSE IF "review_summary" \in DOMAIN item /\ ~IsBlank(item.review_summary)
    THEN item.review_summary
    ELSE ""

Abs(x) == IF x < 0 THEN -x ELSE x

\* Number(x.toFixed(4)) for x in units of 10^-5: the nearest multiple of
\* 10^-4, the larger in magnitude of two equally near.
ToFixed4(x) == (IF x < 0 THEN -1 ELSE 1) * (((Abs(x) + 5) \div 10) * 10)

RECURSIVE sumScores(_, _)
sumScores(items, i) ==
    IF i > Len(items) THEN 0 ELSE comparisonScore(items[i]) + sumScores(items, i + 1)

\* Number(averageScore(items).toFixed(4)): total / items.length, to the
\* nearest multiple of 10^-4.
averageScore4(items) ==
    IF Len(items) = 0 THEN 0
    ELSE ((2 * sumScores(items, 1) + 10 * Len(items)) \div (20 * Len(items))) * 10

\* [...evals].sort((a, b) => comparisonScore(b) - comparisonScore(a))
sortByScore(evals) ==
    SortDescByK([i \in 1..Len(evals) |-> [k |-> comparisonScore(evals[i]), v |-> evals[i]]])

\* new Map(entries).get(key): the value of the last entry with that key.
mapGet(keys, values, key) ==
    IF \E i \in 1..Len(keys) : keys[i] = key
    THEN <<values[CHOOSE i \in 1..Len(keys) :
                      /\ keys[i] = key
                      /\ \A j \in (i + 1)..Len(keys) : keys[j] # key]>>
    ELSE <<>>

\* The keys of a Map or the elements of a Set built from q, in insertion
\* order: each at its first occurrence.
RECURSIVE insertionOrder(_, _)
insertionOrder(q, acc) ==
    IF q = <<>> THEN acc
    ELSE insertionOrder(Tail(q), IF Head(q) \in Range(acc) THEN acc ELSE Append(acc, Head(q)))

prNumbers(evals) == [i \in 1..Len(evals) |-> evals[i].pr_number]

\* allPRs as the list [...mapA.keys(), ...mapB.keys()], without the Set.
allPRs_NoSet(evalsA, evalsB) ==
    insertionOrder(prNumbers(evalsA), <<>>) \o insertionOrder(prNumbers(evalsB), <<>>)

\* new Set([...mapA.keys(), ...mapB.keys()])
allPRs(evalsA, evalsB) ==
    insertionOrder(insertionOrder(prNumbers(evalsA), <<>>) \o
                   insertionOrder(prNumbers(evalsB), <<>>), <<>>)

\* The title with b's preferred to a's.
rowTitle_PreferB(a, b, prNumber) ==
    IF b # <<>> /\ "title" \in DOMAIN b[1] THEN b[1].title
    ELSE IF a # <<>> /\ "title" \in DOMAIN a[1] THEN a[1].title
    ELSE "PR #" \o ToString(prNumber)

\* a?.title ?? b?.title ?? `PR #${prNumber}`
rowTitle(a, b, prNumber) ==
    IF a # <<>> /\ "title" \in DOMAIN a[1] THEN a[1].title
    ELSE IF b # <<>> /\ "title" \in DOMAIN b[1] THEN b[1].title
    ELSE "PR #" \o ToString(prNumber)

\* The row of prNumber, a and b being mapA.get(prNumber) and mapB.get(prNumber).
makeRow(prNumber, a, b, rank_a, rank_b) ==
    [pr_number |-> prNumber,
     title |-> rowTitle(a, b, prNumber),
     run_a_score |-> IF a # <<>> THEN <<comparisonScore(a[1])>> ELSE <<>>,
     run_b_score |-> IF b # <<>> THEN <<comparisonScore(b[1])>> ELSE <<>>,
     delta |-> IF a # <<>> /\ b # <<>>
               THEN <<ToFixed4(comparisonScore(b[1]) - comparisonScore(a[1]))>>
               ELSE <<>>,
     rank_a |-> rank_a,
     rank_b |-> rank_b,
     justification_a |-> IF a # <<>> THEN comparisonJustification(a[1]) ELSE "",
     justification_b |-> IF b # <<>> THEN comparisonJustification(b[1]) ELSE ""]

\* rankGet with the index in place of index + 1.
rankGet_ZeroBased(sorted, prNumber) ==
    mapGet([i \in 1..Len(sorted) |-> sorted[i].v.pr_number],
           [i \in 1..Len(sorted) |-> i - 1], prNumber)

\* rankA.get(prNumber): sorted[i].v has rank i.
rankGet(sorted, prNumber) ==
    mapGet([i \in 1..Len(sorted) |-> sorted[i].v.pr_number],
           [i \in 1..Len(sorted) |-> i], prNumber)

\* for (const prNumber of allPRs) rows.push({...})
pushRows(evalsA, evalsB, sortedA, sortedB, prs) ==
    [i \in 1..Len(prs) |->
        makeRow(prs[i],
                mapGet(prNumbers(evalsA), evalsA, prs[i]),
                mapGet(prNumbers(evalsB), evalsB, prs[i]),
                rankGet(sortedA, prs[i]),
                rankGet(sortedB, prs[i]))]

\* rows.sort((left, right) => rightAbs - leftAbs), a null delta counting -1.
keyRows(rows) ==
    [i \in 1..Len(rows) |->
        [k |-> IF rows[i].delta = <<>> THEN -1 ELSE Abs(rows[i].delta[1]), v |-> rows[i]]]

unkey(sorted) == [i \in 1..Len(sorted) |-> sorted[i].v]

sortRows(rows) == unkey(SortDescByK(keyRows(rows)))

\* getRunComparison once its four reads have returned.
compareRuns(runA, runB, metaA, metaB, evalsA, evalsB) ==
    [run_a |-> [id |-> runA, meta |-> metaA, scored_count |-> Len(evalsA),
                avg_score |-> averageScore4(evalsA)],
     run_b |-> [id |-> runB, meta |-> metaB, scored_count |-> Len(evalsB),
                avg_score |-> averageScore4(evalsB)],
     rows |-> sortRows(pushRows(evalsA, evalsB, sortByScore(evalsA), sortByScore(evalsB),
                                allPRs(evalsA, evalsB)))]

getRunComparison(s, runA, runB) ==
    compareRuns(runA, runB, getRunMeta(s, runA), getRunMeta(s, runB),
                getEvaluations(s, runA), getEvaluations(s, runB))

-----------------------------------------------------------------------------
(* The read accessors, and the accessors by collection kind *)

\* readKV(key, null), as a value that may be null.
readNullable(s, key) == IF HasKey(s, key) THEN <<s[key]>> ELSE <<>>

\* The key a read accessor resolves runId to.
readKey(runId, kind) == IF isLegacyScope(runId) THEN legacyKey(kind) ELSE runKey(runId, kind)

getSummary(s, runId) == readNullable(s, readKey(runId, "summary"))

getClusters(s, runId) == readKV(s, readKey(runId, "clusters"), <<>>)

getRanking(s, runId) == readNullable(s, readKey(runId, "ranking"))

getAgentTrace(s, runId) == readKV(s, readKey(runId, "agent_trace"), <<>>)

getPromptBundle(s, runId) ==
    IF runId = "" \/ isLegacyScope(runId) THEN <<>>
    ELSE readNullable(s, runKey(runId, "prompt_bundle"))

\* setPromptBundle without its ensureRun.
setPromptBundle_NoEnsureRun(s, runId, bundle, t) ==
    writeKV(s, runKey(runId, "prompt_bundle"), bundle)

setPromptBundle(s, runId, bundle, t) ==
    writeKV(ensureRun(s, runId, t), runKey(runId, "prompt_bundle"), bundle)

\* The collections that have a read and a write accessor for both scopes.
AccessorKinds == {"summary", "evaluations", "clusters", "ranking", "agent_trace"}

\* The kinds read with the fallback []; the others are read with null.
ListKinds == {"evaluations", "clusters", "agent_trace"}

\* The read accessor of a kind; a summary or ranking that may be null is a
\* sequence of at most one document.
getCollection(s, kind, runId) ==
    CASE kind = "summary" -> getSummary(s, runId)
      [] kind = "evaluations" -> getEvaluations(s, runId)
      [] kind = "clusters" -> getClusters(s, runId)
      [] kind = "ranking" -> getRanking(s, runId)
      [] kind = "agent_trace" -> getAgentTrace(s, runId)

\* The write accessor of a kind.
setCollection(s, kind, runId, data, t) ==
    CASE kind = "summary" -> setSummary(s, runId, data, t)
      [] kind = "evaluations" -> setEvaluations(s, runId, data, t)
      [] kind = "clusters" -> setClusters(s, runId, data, t)
      [] kind = "ranking" -> setRanking(s, runId, data, t)
      [] kind = "agent_trace" -> setAgentTrace(s, runId, data, t)

\* setLegacySummary, setLegacyEvaluations, setLegacyClusters,
\* setLegacyRanking, setLegacyAgentTrace: no ensureRun, one write.
setLegacyCollection(s, kind, data, t) ==
    writeKV(s, legacyKey(kind),
            IF kind = "summary" THEN spread(data, [last_updated |-> t]) ELSE data)

-----------------------------------------------------------------------------
(* Run metadata.  A patch is a record of the fields the caller's object
   has; the value of a field is <<v>>, or <<>> when it is undefined. *)

\* The fields of a patch that survive JSON.stringify, with their values.
definedFields(data) == [f \in {g \in DOMAIN data : data[g] # <<>>} |-> data[f][1]]

\* The fields of obj that the patch does not carry: { ...obj, ...data } lets
\* a field of data win even when its value is undefined.
keptFields(obj, data) == [f \in DOMAIN obj \ DOMAIN data |-> obj[f]]

\* setRunMeta without the id and timestamp it sets after the two spreads.
setRunMeta_SpreadOnly(s, runId, data, t) ==
    LET s1 == ensureRun(s, runId, t)
        existing == readNullable(s1, runKey(runId, "meta"))
        base == IF existing # <<>> THEN existing[1]
                ELSE [id |-> runId, timestamp |-> toTimestamp(runId, t)]
    IN  writeKV(s1, runKey(runId, "meta"), spread(keptFields(base, data), definedFields(data)))

setRunMeta(s, runId, data, t) ==
    LET s1 == ensureRun(s, runId, t)
        existing == readNullable(s1, runKey(runId, "meta"))
        base == IF existing # <<>> THEN existing[1]
                ELSE [id |-> runId, timestamp |-> toTimestamp(runId, t)]
        timestamp == IF "timestamp" \in DOMAIN data /\ data.timestamp # <<>>
                     THEN data.timestamp[1]
                     ELSE IF existing # <<>> /\ "timestamp" \in DOMAIN existing[1]
                     THEN existing[1].timestamp
                     ELSE toTimestamp(runId, t)
        merged == spread(spread(keptFields(base, data), definedFields(data)),
                         [id |-> runId, timestamp |-> timestamp])
    IN  writeKV(s1, runKey(runId, "meta"), merged)

\* The object as a patch: every field defined.
asPatch(obj) == [f \in DOMAIN obj |-> <<obj[f]>>]

\* An event carries its name and ended_at, a value with its typeof (and,
\* for a string, the string).
updatedBy(event) ==
    IF event.event \in {"completed", "failed"}
    THEN IF event.ended_at.type = "string"
         THEN [status |-> event.event, ended_at |-> event.ended_at.value]
         ELSE [status |-> event.event]
    ELSE <<>>

\* appendRunEvent without its "Object.keys(updated).length > 0" test.
appendRunEvent_Always(s, runId, event, t) ==
    LET existing == getRunMeta(s, runId)
    IN  setRunMeta(s, runId,
                   asPatch(spread(IF existing # <<>> THEN existing[1] ELSE <<>>,
                                  updatedBy(event))), t)

appendRunEvent(s, runId, event, t) ==
    LET existing == getRunMeta(s, runId)
        updated == updatedBy(event)
    IN  IF DOMAIN updated # {}
        THEN setRunMeta(s, runId,
                        asPatch(spread(IF existing # <<>> THEN existing[1] ELSE <<>>, updated)), t)
        ELSE s

-----------------------------------------------------------------------------
(* Inputs *)

\* Scores are fixed-point numbers in units of 10^-5: 600000 is 6.0.
Evaluation(pr, sc) == [pr_number |-> pr, final_score |-> sc]

\* The registry specification writes one evaluation; the retention
\* specification one per pr_number, so that runs hold 0, 1, ... MaxPr of them.
RegEvs == {Evaluation(1, 600000)}
StoreEvs == {Evaluation(pr, 600000) : pr \in Prs}

\* The evaluation specification writes 8.5 and 9.1 to the legacy id and to
\* one namespaced run, singly and in batches of up to MaxBatch.
MaxBatch == 2
EvalScores == {850000, 910000}
EvalEvs == {Evaluation(pr, sc) : pr \in Prs, sc \in EvalScores}
EvalRunIds == {LEGACY_RUN_ID, "1"}
EvalBatches == UNION {[1..n -> EvalEvs] : n \in 0..MaxBatch}
EvalBodies ==
    {[run_id |-> r, type |-> "evaluation", data |-> ev] :
        r \in {Null} \cup EvalRunIds, ev \in EvalEvs}
BatchBodies ==
    {[run_id |-> r, type |-> "evaluations_batch", data |-> b] :
        r \in {Null} \cup EvalRunIds, b \in EvalBatches}
\* A body whose type the route does not know.
UnknownBodies == {[run_id |-> "1", type |-> "evaluations", data |-> <<>>]}

\* The route specification pushes one evaluation with and without run_id, a
\* body of unknown type and a summary body without data, and posts a trace of
\* one step and a body that carries no array.
RouteRunIds == {Null, "1"}
RouteBodies ==
    {[run_id |-> r, type |-> "evaluation", data |-> ev] : r \in RouteRunIds, ev \in RegEvs}
        \cup UnknownBodies
        \cup {[run_id |-> r, type |-> "summary"] : r \in RouteRunIds}
TraceBodies ==
    {[run_id |-> r, trace |-> tr] : r \in RouteRunIds, tr \in {<<>>, <<<<[step |-> 1]>>>>}}

\* The accessor specification writes one value of each kind under the
\* legacy id, "latest" and one namespaced id, and reads these and an id
\* nothing was written to.  A write is made to a table of at most MaxKeys rows.
MaxKeys == 3
AccessorRunIds == {LEGACY_RUN_ID, "latest", "1"}
ReadRunIds == AccessorRunIds \cup {"2"}
AccessorData(kind) ==
    CASE kind = "summary" -> [repo |-> "r"]
      [] kind = "evaluations" -> <<Evaluation(1, 600000)>>
      [] kind = "clusters" -> <<[cluster_id |-> 1]>>
      [] kind = "ranking" -> [top |-> 1]
      [] kind = "agent_trace" -> <<[step |-> 1]>>

\* The cluster specification writes lists of up to MaxClusters clusters
\* with the identifiers 1 and 2 and the sizes 1 and 2.
MaxClusters == 2
Clusters == {[cluster_id |-> c, size |-> n] : c \in {1, 2}, n \in {1, 2}}
ClusterLists == UNION {[1..n -> Clusters] : n \in 0..MaxClusters}
ClusterBodies ==
    {[run_id |-> r, type |-> "clusters", data |-> d] : r \in NamespacedRunIds, d \in ClusterLists}

\* The metadata specification patches runs with every combination of an
\* absent, an undefined and a given id, timestamp, status and kind.  A
\* choice maps a field to 0 (absent), 1 (undefined) or 2 (given); the id
\* and the kind are absent or given.
PatchFields == {"id", "timestamp", "status", "kind"}
PatchChoices == {c \in [PatchFields -> 0..2] : c["id"] # 1 /\ c["kind"] # 1}
PatchValue(f) ==
    CASE f = "id" -> <<"9">>
      [] f = "timestamp" -> <<0>>
      [] f = "status" -> <<"completed">>
      [] f = "kind" -> <<"baseline">>
Patch(c) ==
    [f \in {g \in PatchFields : c[g] > 0} |-> IF c[f] = 1 THEN <<>> ELSE PatchValue(f)]

\* Lifecycle events: the two that appendRunEvent maps and one it does
\* not, with ended_at missing, a string, or a number.
EventNames == {"completed", "failed", "started"}
EndedAts == {[type |-> "undefined"], [type |-> "number"], [type |-> "string", value |-> "e1"]}
RunEvents == {[event |-> n, ended_at |-> e] : n \in EventNames, e \in EndedAts}

\* The patches of the event specification: a kind, a status, or both.
EventPatchChoices ==
    {c \in PatchChoices : c["id"] = 0 /\ c["timestamp"] = 0 /\ c["status"] # 1
                            /\ (c["kind"] = 2 \/ c["status"] = 2)}

\* The comparator specification stores in runs "1" and "2" every list of up
\* to MaxCmpLen evaluations scoring 6.0 or 8.0, a pr_number twice included.
MaxCmpLen == 2
CmpScores == {600000, 800000}
CmpEvs == {Evaluation(pr, sc) : pr \in Prs, sc \in CmpScores}
CmpLists == UNION {[1..n -> CmpEvs] : n \in 0..MaxCmpLen}
CmpPairs == {<<"1", "2">>, <<"2", "1">>}

\* The item specification stores lists of up to MaxItemLen of six records
\* that differ in the fields they carry: which score field, title,
\* justification, review_summary; 5.00004 has a fifth decimal.
MaxItemLen == 2
ItemEvs ==
    {[pr_number |-> 1, final_score |-> 600000, final_rank_score |-> 100000,
      title |-> "T1", justification |-> "J1"],
     [pr_number |-> 1, final_rank_score |-> 800000, score |-> 100000,
      title |-> "T1b", justification |-> " ", review_summary |-> "R1"],
     [pr_number |-> 2, score |-> 500004],
     [pr_number |-> 2],
     [pr_number |-> 5, final_score |-> 600000],
     [pr_number |-> 5, final_score |-> 800000]}
ItemLists == UNION {[1..n -> ItemEvs] : n \in 0..MaxItemLen}

\* The retention specification numbers a run's evaluations consecutively:
\* it rewrites a stored pr_number or writes the next one.
NextPrs(s, runId) == {pr \in Prs : pr <= Len(getEvaluations(s, runId)) + 1}

-----------------------------------------------------------------------------
(* The handlers, one action each *)

Init ==
    /\ kv = <<>>
    /\ now = 1
    /\ last = [op |-> "init"]
    /\ pending = [active |-> FALSE]

\* Date.now() advances between two requests.
Tick ==
    /\ now < MaxTime
    /\ now' = now + 1
    /\ last' = [op |-> "tick"]
    /\ UNCHANGED <<kv, pending>>

AppendEvaluation(runId, ev) ==
    /\ kv' = appendEvaluation(kv, runId, ev, now)
    /\ last' = [op |-> "appendEvaluation", run |-> runId, ev |-> ev]
    /\ UNCHANGED <<now, pending>>

AppendLegacyEvaluation(ev) ==
    /\ kv' = appendLegacyEvaluation(kv, ev)
    /\ last' = [op |-> "appendLegacyEvaluation", ev |-> ev]
    /\ UNCHANGED <<now, pending>>

GetRunIds ==
    /\ kv' = getRunIds(kv, now).kv
    /\ last' = [op |-> "getRunIds", ret |-> getRunIds(kv, now).ret]
    /\ UNCHANGED <<now, pending>>

GetCurrentRunId ==
    /\ kv' = getCurrentRunId(kv, now).kv
    /\ last' = [op |-> "getCurrentRunId", read |-> readKV(kv, CURRENT_RUN_ID_KEY, Null),
                ret |-> getCurrentRunId(kv, now).ret]
    /\ UNCHANGED <<now, pending>>

GetOrCreateCurrentRunId ==
    /\ kv' = getOrCreateCurrentRunId(kv, now).kv
    /\ last' = [op |-> "getOrCreateCurrentRunId", read |-> readKV(kv, CURRENT_RUN_ID_KEY, Null),
                ret |-> getOrCreateCurrentRunId(kv, now).ret]
    /\ UNCHANGED <<now, pending>>

StartNewCurrentRun(preferredRunId) ==
    /\ kv' = startNewCurrentRun(kv, preferredRunId, now).kv
    /\ last' = [op |-> "startNewCurrentRun", preferred |-> preferredRunId,
                run |-> startNewCurrentRun(kv, preferredRunId, now).ret]
    /\ UNCHANGED <<now, pending>>

GetLatestRunId ==
    /\ kv' = getLatestRunId(kv, now).kv
    /\ last' = [op |-> "getLatestRunId", ret |-> getLatestRunId(kv, now).ret]
    /\ UNCHANGED <<now, pending>>

\* prev holds the result of the call before when that was a cleanup too;
\* counts is the call's local runCounts.
CleanupRuns ==
    /\ kv' = cleanupRuns(kv, now).kv
    /\ last' = [op |-> "cleanupRuns", ret |-> cleanupRuns(kv, now).ret,
                prev |-> IF last.op = "cleanupRuns" THEN <<last.ret>> ELSE <<>>,
                counts |-> runCounts(getRuns(kv, now).kv, getRuns(kv, now).ret)]
    /\ UNCHANGED <<now, pending>>

\* A cleanup request whose delete loop and whose pointer step are separated
\* by the requests of other handlers.
CleanupRunsDelete ==
    /\ ~pending.active
    /\ LET d == cleanupDelete(kv, now)
       IN  /\ kv' = d.kv
           /\ IF d.empty
              THEN /\ pending' = pending
                   /\ last' = [op |-> "cleanupRuns", ret |-> cleanupRuns(kv, now).ret]
              ELSE /\ pending' = [active |-> TRUE, loc |-> [d EXCEPT !.kv = <<>>]]
                   /\ last' = [op |-> "cleanupRunsDelete"]
    /\ UNCHANGED now

CleanupRunsPointer ==
    /\ pending.active
    /\ kv' = cleanupPointer(kv, pending.loc, now).kv
    /\ last' = [op |-> "cleanupRuns", ret |-> cleanupPointer(kv, pending.loc, now).ret]
    /\ pending' = [active |-> FALSE]
    /\ UNCHANGED now

PushPOST(secretSet, authOk, body) ==
    /\ kv' = pushPOST(kv, secretSet, authOk, body, now).kv
    /\ last' = [op |-> "push", secret |-> secretSet, auth |-> authOk, body |-> body,
                ret |-> pushPOST(kv, secretSet, authOk, body, now).ret]
    /\ UNCHANGED <<now, pending>>

TracePOST(secretSet, authOk, body) ==
    /\ kv' = tracePOST(kv, secretSet, authOk, body, now).kv
    /\ last' = [op |-> "trace", secret |-> secretSet, auth |-> authOk, body |-> body,
                ret |-> tracePOST(kv, secretSet, authOk, body, now).ret]
    /\ UNCHANGED <<now, pending>>

CleanupPOST(secretSet, authOk) ==
    /\ kv' = cleanupPOST(kv, secretSet, authOk, now).kv
    /\ last' = [op |-> "cleanup", secret |-> secretSet, auth |-> authOk,
                ret |-> cleanupPOST(kv, secretSet, authOk, now).ret]
    /\ UNCHANGED <<now, pending>>

\* GET /api/compare; a and b are Null when the query has no such parameter.
\* The route calls getRunComparison, which reads only, when it has both.
CompareGET(runA, runB) ==
    /\ last' = [op |-> "compare", a |-> runA, b |-> runB,
                ret |-> [status |-> IF runA \in {Null, ""} \/ runB \in {Null, ""}
                                    THEN 400 ELSE 200,
                         run_id |-> Null]]
    /\ UNCHANGED <<kv, now, pending>>

\* A legacy write accessor; empty says that a list kind is written empty.
SetLegacyCollection(kind, empty) ==
    /\ kv' = setLegacyCollection(kv, kind, IF empty THEN <<>> ELSE AccessorData(kind), now)
    /\ last' = [op |-> "setLegacyCollection", kind |-> kind, empty |-> empty]
    /\ UNCHANGED <<now, pending>>

\* A write accessor of a collection kind.
SetCollection(kind, runId) ==
    /\ Cardinality(DOMAIN kv) <= MaxKeys
    /\ kv' = setCollection(kv, kind, runId, AccessorData(kind), now)
    /\ last' = [op |-> "setCollection", kind |-> kind, run |-> runId]
    /\ UNCHANGED <<now, pending>>

SetPromptBundle(runId) ==
    /\ kv' = setPromptBundle(kv, runId, [system |-> "p"], now)
    /\ last' = [op |-> "setPromptBundle", run |-> runId]
    /\ UNCHANGED <<now, pending>>

SetClusters(runId, data) ==
    /\ kv' = setClusters(kv, runId, data, now)
    /\ last' = [op |-> "setClusters", run |-> runId, data |-> data]
    /\ UNCHANGED <<now, pending>>

SetRunMeta(runId, data) ==
    /\ kv' = setRunMeta(kv, runId, data, now)
    /\ last' = [op |-> "setRunMeta", run |-> runId, data |-> data]
    /\ UNCHANGED <<now, pending>>

AppendRunEvent(runId, event) ==
    /\ kv' = appendRunEvent(kv, runId, event, now)
    /\ last' = [op |-> "appendRunEvent", run |-> runId, event |-> event]
    /\ UNCHANGED <<now, pending>>

\* The store after setEvaluations("1", evalsA) and setEvaluations("2", evalsB).
InitCmp ==
    /\ \E evalsA \in CmpLists, evalsB \in CmpLists :
           kv = setEvaluations(setEvaluations(<<>>, "1", evalsA, 1), "2", evalsB, 1)
    /\ now = 1
    /\ last = [op |-> "init"]
    /\ pending = [active |-> FALSE]

\* The same with the lists of records of different shapes.
InitItems ==
    /\ \E evalsA \in ItemLists, evalsB \in ItemLists :
           kv = setEvaluations(setEvaluations(<<>>, "1", evalsA, 1), "2", evalsB, 1)
    /\ now = 1
    /\ last = [op |-> "init"]
    /\ pending = [active |-> FALSE]

GetRunComparison(runA, runB) ==
    /\ last' = [op |-> "getRunComparison", a |-> runA, b |-> runB,
                ret |-> getRunComparison(kv, runA, runB)]
    /\ UNCHANGED <<kv, now, pending>>

\* The exported functions by name, for a request made while the backend is
\* unreachable: each returns [kv, ret], ret being Null for a function that
\* returns nothing.
OutageReads == {"getRunIds", "getRuns", "getLatestRunId", "getCurrentRunId",
                "getEvaluations", "getEvaluationCount", "getRunMeta"}

OutageWrites == {"appendEvaluation", "appendLegacyEvaluation", "setEvaluations",
                 "startNewCurrentRun", "getOrCreateCurrentRunId", "clearCurrentRunId",
                 "deleteRun", "cleanupRuns"}

call(s, op, runId, ev, t) ==
    CASE op = "getRunIds" -> getRunIds(s, t)
      [] op = "getRuns" -> getRuns(s, t)
      [] op = "getLatestRunId" -> getLatestRunId(s, t)
      [] op = "getCurrentRunId" -> getCurrentRunId(s, t)
      [] op = "getEvaluations" -> [kv |-> s, ret |-> getEvaluations(s, runId)]
      [] op = "getEvaluationCount" -> [kv |-> s, ret |-> getEvaluationCount(s, runId)]
      [] op = "getRunMeta" -> [kv |-> s, ret |-> getRunMeta(s, runId)]
      [] op = "appendEvaluation" -> [kv |-> appendEvaluation(s, runId, ev, t), ret |-> Null]
      [] op = "appendLegacyEvaluation" -> [kv |-> appendLegacyEvaluation(s, ev), ret |-> Null]
      [] op = "setEvaluations" -> [kv |-> setEvaluations(s, runId, <<ev>>, t), ret |-> Null]
      [] op = "startNewCurrentRun" -> startNewCurrentRun(s, runId, t)
      [] op = "getOrCreateCurrentRunId" -> getOrCreateCurrentRunId(s, t)
      [] op = "clearCurrentRunId" -> [kv |-> clearCurrentRunId(s), ret |-> Null]
      [] op = "deleteRun" -> [kv |-> deleteRun(s, runId, t), ret |-> Null]
      [] op = "cleanupRuns" -> cleanupRuns(s, t)

\* The table after a request that saw it as s and left it as s2: the rows
\* are untouched unless a call of the request took effect.
landed(s, s2) == IF s2 = Unreachable THEN s ELSE s2

\* One request during an outage.
Outage(op, runId, ev) ==
    /\ kv' = landed(kv, call(Unreachable, op, runId, ev, now).kv)
    /\ last' = [op |-> op, run |-> runId, outage |-> TRUE,
                ret |-> call(Unreachable, op, runId, ev, now).ret]
    /\ UNCHANGED <<now, pending>>

-----------------------------------------------------------------------------
(* The handlers, one backend call per step *)

\* Requests in flight at the same time.
MaxProcs == 2

Procs == 1..MaxProcs

\* The locals of a request: the function it runs and where it stands (pc),
\* its runId argument, the list it is about to write (data), the registry
\* list it read (existing) and the deleteKV calls of deleteRun's Promise.all
\* that have not been issued yet (todo).
Idle == [pc |-> "idle", op |-> "", run |-> "", data |-> <<>>, existing |-> <<>>, todo |-> {}]

InitSteps ==
    /\ kv = <<>>
    /\ now = 1
    /\ last = [op |-> "init"]
    /\ pending = [p \in Procs |-> Idle]

\* tryWriteKV that never reaches the table.
tryWriteKV_Never(s, key, value, ok) == s

\* writeKV and deleteKV catch every error of the backend and return: a call
\* that failed (ok = FALSE) leaves the table as it was.
tryWriteKV(s, key, value, ok) == IF ok THEN writeKV(s, key, value) ELSE s

tryDeleteKV(s, key, ok) == IF ok THEN deleteKV(s, key) ELSE s

\* readKV returns its fallback when the key has no row and when the query
\* throws (ok = FALSE).
tryReadKV(s, key, fallback, ok) == IF ok THEN readKV(s, key, fallback) ELSE fallback

\* The deleteKV calls of deleteRun's Promise.all, in two groups: the one of
\* the metadata (a namespaced run only), and the ones of the collections,
\* of which the requests of this specification write the evaluations only.
DeleteGroups(runId) ==
    IF runId = LEGACY_RUN_ID THEN {"collections"} ELSE {"meta", "collections"}

deleteGroup(s, runId, group) ==
    CASE group = "meta" -> deleteKV(s, runKey(runId, "meta"))
      [] group = "collections" ->
             IF runId = LEGACY_RUN_ID
             THEN deleteKeys(s, {LEGACY_SUMMARY_KEY, LEGACY_EVALUATIONS_KEY,
                                 LEGACY_CLUSTERS_KEY, LEGACY_RANKING_KEY,
                                 LEGACY_AGENT_TRACE_KEY})
             ELSE deleteKeys(s, {runKey(runId, kind) : kind \in DataKinds \ {"meta"}})

\* A function returns: deleteRun to the loop of the cleanupRuns() that
\* called it (whose locals stay in the record), any other to an idle slot.
Return(l) ==
    IF "queue" \in DOMAIN l
    THEN [l EXCEPT !.pc = "cleanupLoop", !.op = "cleanupRuns", !.run = "",
                   !.existing = <<>>, !.todo = {}]
    ELSE Idle

\* appendEvaluation(runId, ev) starts: getEvaluations(runId), then the upsert
\* in memory; setEvaluations' ensureRun comes next.
AppendEvaluationBegin(p, runId, ev) ==
    /\ pending[p].pc = "idle"
    /\ pending' = [pending EXCEPT ![p] =
           [Idle EXCEPT !.pc = "ensureLegacyRunMigration", !.op = "appendEvaluation",
                        !.run = runId, !.data = upsert(getEvaluations(kv, runId), ev)]]
    /\ UNCHANGED <<kv, now, last>>

\* deleteRun(runId) starts, as cleanupRuns calls it: getRunIds() comes first.
DeleteRunBegin(p, runId) ==
    /\ pending[p].pc = "idle"
    /\ pending' = [pending EXCEPT ![p] =
           [Idle EXCEPT !.pc = "ensureLegacyRunMigration", !.op = "deleteRun", !.run = runId]]
    /\ UNCHANGED <<kv, now, last>>

\* ensureLegacyRunMigration's reads: the registry, whose read may fail,
\* then the legacy keys.
MigrationReadTry(p, ok) ==
    /\ pending[p].pc = "ensureLegacyRunMigration"
    /\ pending' = [pending EXCEPT ![p].pc =
           IF Len(tryReadKV(kv, RUNS_KEY, <<>>, ok)) > 0 \/ ~hasLegacyData(kv)
           THEN "getRunIds" ELSE "migrationRegistryWrite"]
    /\ UNCHANGED <<kv, now, last>>

MigrationRead(p) == MigrationReadTry(p, TRUE)

MigrationRegistryWrite(p, ok) ==
    /\ pending[p].pc = "migrationRegistryWrite"
    /\ kv' = tryWriteKV(kv, RUNS_KEY, <<LEGACY_RUN_ID>>, ok)
    /\ pending' = [pending EXCEPT ![p].pc = "migrationMetaWrite"]
    /\ UNCHANGED <<now, last>>

MigrationMetaWrite(p, ok) ==
    /\ pending[p].pc = "migrationMetaWrite"
    /\ kv' = tryWriteKV(kv, runKey(LEGACY_RUN_ID, "meta"),
                        [id |-> LEGACY_RUN_ID, timestamp |-> now], ok)
    /\ pending' = [pending EXCEPT ![p].pc = "getRunIds"]
    /\ UNCHANGED <<now, last>>

\* getCurrentRunId() returns ret: to its caller, or to
\* getOrCreateCurrentRunId(), which returns an id that is not null and
\* else goes on to ensureRun(createRunId()).
ReturnCurrentRunId(l, ret, t) ==
    IF "caller" \in DOMAIN l /\ ret = Null
    THEN [Idle EXCEPT !.pc = "ensureLegacyRunMigration", !.op = "getOrCreateCurrentRunId",
                      !.run = createRunId(t)]
    ELSE Idle

\* getRunIds' own read of the registry, which may fail, and what its caller
\* does with it: ensureRun tests existing.includes(runId); deleteRun
\* returns when the run is not registered and starts its deletes when it
\* is; getCurrentRunId returns the pointer's id when it is registered and
\* goes on to clearCurrentRunId() when it is not.
GetRunIdsReadTry(p, ok) ==
    /\ pending[p].pc = "getRunIds"
    /\ LET existing == tryReadKV(kv, RUNS_KEY, <<>>, ok)
       IN  pending' = [pending EXCEPT ![p] =
               CASE pending[p].op = "deleteRun" ->
                        IF pending[p].run \notin Range(existing) THEN Return(pending[p])
                        ELSE [@ EXCEPT !.pc = "deleteKeys", !.existing = existing,
                                       !.todo = DeleteGroups(pending[p].run)]
                 [] pending[p].op = "getRunIds" -> Idle
                 [] pending[p].op = "getCurrentRunId" ->
                        IF pending[p].run \in Range(existing)
                        THEN ReturnCurrentRunId(pending[p], pending[p].run, now)
                        ELSE [@ EXCEPT !.pc = "clearCurrentRunId"]
                 [] OTHER ->
                        IF pending[p].run \in Range(existing)
                        THEN [@ EXCEPT !.pc = "ensureRunMetaRead"]
                        ELSE [@ EXCEPT !.pc = "ensureRunRegistryWrite", !.existing = existing]]
    /\ UNCHANGED <<kv, now, last>>

GetRunIdsRead(p) == GetRunIdsReadTry(p, TRUE)

\* What follows ensureRun in its caller: the write of the pointer, or the
\* write of the collection.
AfterEnsureRun(l) ==
    IF l.op \in {"startNewCurrentRun", "getOrCreateCurrentRunId"}
    THEN "setCurrentRunId" ELSE "setEvaluations"

\* ensureRun that appends to the list stored at the time of its write.
EnsureRunRegistryWrite_Stored(p, ok) ==
    /\ pending[p].pc = "ensureRunRegistryWrite"
    /\ kv' = tryWriteKV(kv, RUNS_KEY, Append(readKV(kv, RUNS_KEY, <<>>), pending[p].run), ok)
    /\ pending' = [pending EXCEPT ![p].pc = "ensureRunMetaRead", ![p].existing = <<>>]
    /\ UNCHANGED <<now, last>>

EnsureRunRegistryWrite(p, ok) ==
    /\ pending[p].pc = "ensureRunRegistryWrite"
    /\ kv' = tryWriteKV(kv, RUNS_KEY, Append(pending[p].existing, pending[p].run), ok)
    /\ pending' = [pending EXCEPT ![p].pc = "ensureRunMetaRead", ![p].existing = <<>>]
    /\ UNCHANGED <<now, last>>

\* ensureRun's read of the metadata, which may fail.
EnsureRunMetaReadTry(p, ok) ==
    /\ pending[p].pc = "ensureRunMetaRead"
    /\ pending' = [pending EXCEPT ![p].pc =
           IF ok /\ HasKey(kv, runKey(pending[p].run, "meta"))
           THEN AfterEnsureRun(pending[p]) ELSE "ensureRunMetaWrite"]
    /\ UNCHANGED <<kv, now, last>>

EnsureRunMetaRead(p) == EnsureRunMetaReadTry(p, TRUE)

EnsureRunMetaWrite(p, ok) ==
    /\ pending[p].pc = "ensureRunMetaWrite"
    /\ kv' = tryWriteKV(kv, runKey(pending[p].run, "meta"),
                        [id |-> pending[p].run,
                         timestamp |-> toTimestamp(pending[p].run, now),
                         status |-> "running"], ok)
    /\ pending' = [pending EXCEPT ![p].pc = AfterEnsureRun(pending[p])]
    /\ UNCHANGED <<now, last>>

\* getRunIds() starts.
GetRunIdsBegin(p) ==
    /\ pending[p].pc = "idle"
    /\ pending' = [pending EXCEPT ![p] =
           [Idle EXCEPT !.pc = "ensureLegacyRunMigration", !.op = "getRunIds"]]
    /\ UNCHANGED <<kv, now, last>>

\* getCurrentRunId()'s read of the pointer, which may fail: it returns null
\* when the pointer is null, and goes on to getRunIds() when it is not.
currentRunIdRead(l, s, t, ok) ==
    LET runId == tryReadKV(s, CURRENT_RUN_ID_KEY, Null, ok)
    IN  IF runId = Null THEN ReturnCurrentRunId(l, Null, t)
        ELSE [l EXCEPT !.pc = "ensureLegacyRunMigration", !.op = "getCurrentRunId",
                       !.run = runId]

GetCurrentRunIdBegin(p, ok) ==
    /\ pending[p].pc = "idle"
    /\ pending' = [pending EXCEPT ![p] = currentRunIdRead(Idle, kv, now, ok)]
    /\ UNCHANGED <<kv, now, last>>

\* getOrCreateCurrentRunId() starts with getCurrentRunId().
GetOrCreateCurrentRunIdBegin(p, ok) ==
    /\ pending[p].pc = "idle"
    /\ pending' = [pending EXCEPT ![p] =
           currentRunIdRead(spread(Idle, [caller |-> "getOrCreateCurrentRunId"]), kv, now, ok)]
    /\ UNCHANGED <<kv, now, last>>

\* getCurrentRunId()'s clearCurrentRunId(), after which it returns null.
\* last.cleared holds the pointer that the delete removed.
ClearCurrentRunId(p, ok) ==
    /\ pending[p].pc = "clearCurrentRunId"
    /\ kv' = tryDeleteKV(kv, CURRENT_RUN_ID_KEY, ok)
    /\ pending' = [pending EXCEPT ![p] = ReturnCurrentRunId(pending[p], Null, now)]
    /\ last' = [op |-> "clearCurrentRunId", proc |-> p, ok |-> ok,
                cleared |-> readKV(kv, CURRENT_RUN_ID_KEY, Null)]
    /\ UNCHANGED now

\* startNewCurrentRun(undefined, preferredRunId) starts: ensureRun(runId)
\* comes first.
StartNewCurrentRunBegin(p, preferredRunId) ==
    /\ pending[p].pc = "idle"
    /\ pending' = [pending EXCEPT ![p] =
           [Idle EXCEPT !.pc = "ensureLegacyRunMigration", !.op = "startNewCurrentRun",
                        !.run = IF preferredRunId # Null /\ preferredRunId # ""
                                THEN preferredRunId ELSE createRunId(now)]]
    /\ UNCHANGED <<kv, now, last>>

\* The write of the pointer that ends startNewCurrentRun() and
\* getOrCreateCurrentRunId(), which return the run id.
SetCurrentRunIdWrite(p, ok) ==
    /\ pending[p].pc = "setCurrentRunId"
    /\ kv' = tryWriteKV(kv, CURRENT_RUN_ID_KEY, pending[p].run, ok)
    /\ pending' = [pending EXCEPT ![p] = Idle]
    /\ last' = [op |-> pending[p].op, proc |-> p, ok |-> ok, run |-> pending[p].run]
    /\ UNCHANGED now

\* setEvaluations' write of the collection; the request returns.
SetEvaluationsWrite(p, ok) ==
    /\ pending[p].pc = "setEvaluations"
    /\ kv' = tryWriteKV(kv, runKey(pending[p].run, "evaluations"), pending[p].data, ok)
    /\ pending' = [pending EXCEPT ![p] = Idle]
    /\ UNCHANGED <<now, last>>

\* One of the deleteKV calls of deleteRun's Promise.all, in any order.
DeleteRunKey(p, group, ok) ==
    /\ pending[p].pc = "deleteKeys"
    /\ group \in pending[p].todo
    /\ kv' = IF ok THEN deleteGroup(kv, pending[p].run, group) ELSE kv
    /\ pending' = [pending EXCEPT ![p].todo = @ \ {group},
                                  ![p].pc = IF pending[p].todo = {group}
                                            THEN "deleteRunRegistryWrite" ELSE @]
    /\ UNCHANGED <<now, last>>

\* deleteRun's closing write of the registry; the request returns.
DeleteRunRegistryWrite(p, ok) ==
    /\ pending[p].pc = "deleteRunRegistryWrite"
    /\ kv' = tryWriteKV(kv, RUNS_KEY, FilterOut(pending[p].existing, pending[p].run), ok)
    /\ pending' = [pending EXCEPT ![p] = Return(pending[p])]
    /\ UNCHANGED <<now, last>>

\* Two appendEvaluation calls in flight on run "1": request p appends an
\* evaluation of pr_number p, once.  last.returned holds the requests that have returned
\* and last.proc the one that returned last.
RaceRun == "1"

RaceEvs(p) == {Evaluation(p, sc) : sc \in CmpScores}

Returned == IF "returned" \in DOMAIN last THEN last.returned ELSE {}

RaceBegin(p) ==
    /\ p \notin Returned
    /\ \E ev \in RaceEvs(p) : AppendEvaluationBegin(p, RaceRun, ev)

\* setEvaluations' write of the collection, the backend being reachable;
\* appendEvaluation returns to its caller without an error.
AppendEvaluationReturn(p) ==
    /\ pending[p].pc = "setEvaluations"
    /\ pending[p].op = "appendEvaluation"
    /\ kv' = tryWriteKV(kv, runKey(pending[p].run, "evaluations"), pending[p].data, TRUE)
    /\ pending' = [pending EXCEPT ![p] = Idle]
    /\ last' = [op |-> "appendEvaluation", run |-> pending[p].run, proc |-> p,
                returned |-> Returned \cup {p}]
    /\ UNCHANGED now

\* The push route's evaluation and evaluations_batch cases, data being the
\* evaluations of the body (one for an evaluation push): the first
\* appendEvaluation starts, rest holds the evaluations the loop has not
\* reached.
Batches == UNION {[1..n -> StoreEvs] : n \in 1..MaxBatch}

PushEvaluationsBegin(p, runId, data) ==
    /\ pending[p].pc = "idle"
    /\ pending' = [pending EXCEPT ![p] =
           spread([Idle EXCEPT !.pc = "ensureLegacyRunMigration", !.op = "appendEvaluation",
                               !.run = runId,
                               !.data = upsert(getEvaluations(kv, runId), Head(data))],
                  [rest |-> Tail(data)])]
    /\ UNCHANGED <<kv, now, last>>

\* setEvaluations' write of the collection: appendEvaluation returns to the
\* loop, and the route returns after the last evaluation.
PushEvaluationsWrite(p, ok) ==
    /\ pending[p].pc = "setEvaluations"
    /\ "rest" \in DOMAIN pending[p]
    /\ kv' = tryWriteKV(kv, runKey(pending[p].run, "evaluations"), pending[p].data, ok)
    /\ pending' = [pending EXCEPT ![p] =
           IF pending[p].rest = <<>> THEN Idle ELSE [@ EXCEPT !.pc = "appendEvaluation"]]
    /\ last' = [op |-> "push", run |-> pending[p].run, proc |-> p]
    /\ UNCHANGED now

\* The loop's next appendEvaluation: getEvaluations(runId) and the upsert.
PushEvaluationsNext(p) ==
    /\ pending[p].pc = "appendEvaluation"
    /\ pending' = [pending EXCEPT ![p] =
           [@ EXCEPT !.pc = "ensureLegacyRunMigration",
                     !.data = upsert(getEvaluations(kv, pending[p].run), Head(pending[p].rest)),
                     !.rest = Tail(pending[p].rest)]]
    /\ UNCHANGED <<kv, now, last>>

\* cleanupRuns() starts: getRuns(), the evaluation counts and
\* getLatestRunId(), which read (and migrate legacy data), then the choice
\* of the runs to keep.  decided lists the runs that the loop will hand to
\* deleteRun, queue the ones it has not reached yet.
cleanupDecision(r, t) ==
    LET legacyId == legacyDataRun(runCounts(r.kv, r.ret)).id
        b == getLatestRunId(r.kv, t)
        keep == keepOf(legacyId, b.ret)
        ids == [i \in 1..Len(r.ret) |-> r.ret[i].id]
    IN  [kv |-> b.kv, best |-> b.ret, keep |-> keep,
         decided |-> SelectSeq(ids, LAMBDA id : id \notin Range(keep))]

CleanupRunsBegin(p) ==
    /\ pending[p].pc = "idle"
    /\ \A q \in Procs : "queue" \notin DOMAIN pending[q]
    /\ Len(getRuns(kv, now).ret) > 0
    /\ LET d == cleanupDecision(getRuns(kv, now), now)
       IN  /\ kv' = d.kv
           /\ pending' = [pending EXCEPT ![p] =
                  spread([Idle EXCEPT !.pc = "cleanupLoop", !.op = "cleanupRuns"],
                         [best |-> d.best, keep |-> d.keep, decided |-> d.decided,
                          queue |-> d.decided])]
    /\ UNCHANGED <<now, last>>

\* The loop of cleanupRuns() calls deleteRun on its next run, or leaves for
\* the pointer.
CleanupLoop(p) ==
    /\ pending[p].pc = "cleanupLoop"
    /\ pending' = [pending EXCEPT ![p] =
           IF pending[p].queue = <<>> THEN [@ EXCEPT !.pc = "cleanupPointer"]
           ELSE [@ EXCEPT !.pc = "ensureLegacyRunMigration", !.op = "deleteRun",
                          !.run = Head(pending[p].queue), !.queue = Tail(pending[p].queue)]]
    /\ UNCHANGED <<kv, now, last>>

\* getCurrentRunId() and the write or delete of the pointer; cleanupRuns()
\* returns.
CleanupPointer(p) ==
    /\ pending[p].pc = "cleanupPointer"
    /\ kv' = repoint(getCurrentRunId(kv, now), Range(pending[p].keep),
                     [best_run_id |-> pending[p].best, legacy_run_id |-> pending[p].keep[1],
                      kept_run_ids |-> pending[p].keep,
                      deleted_run_ids |-> pending[p].decided]).kv
    /\ pending' = [pending EXCEPT ![p] = Idle]
    /\ UNCHANGED <<now, last>>

\* The cleanup in flight, if there is one.
InCleanup(p) == "queue" \in DOMAIN pending[p]

\* appendEvaluation starts while a cleanupRuns() is past its decision, on a
\* run that the cleanup has not decided to delete.
WriteDuringCleanup(p, runId, ev) ==
    /\ \E q \in Procs : InCleanup(q) /\ runId \notin Range(pending[q].decided)
    /\ AppendEvaluationBegin(p, runId, ev)

\* The store after appendLegacyEvaluation(ev) and startNewCurrentRun("1").
InitFaults ==
    /\ \E ev \in RegEvs :
           kv = startNewCurrentRun(appendLegacyEvaluation(<<>>, ev), "1", 1).kv
    /\ now = 1
    /\ last = [op |-> "init"]
    /\ pending = [p \in Procs |-> Idle]

\* The store after startNewCurrentRun("1") and appendEvaluation("2", ev),
\* and the store that a cleanupRuns() then leaves between its delete loop,
\* which deletes run "1", and its pointer step: deleteRun leaves the pointer.
InitPointer ==
    /\ \E ev \in RegEvs :
           LET s == appendEvaluation(startNewCurrentRun(<<>>, "1", 1).kv, "2", ev, 1)
           IN  kv \in {s, cleanupDelete(s, 1).kv}
    /\ now = 1
    /\ last = [op |-> "init"]
    /\ pending = [p \in Procs |-> Idle]

\* The store after appendEvaluation("1", ev) and appendEvaluation("2", ev).
InitSweep ==
    /\ \E ev \in RegEvs :
           kv = appendEvaluation(appendEvaluation(<<>>, "1", ev, 1), "2", ev, 1)
    /\ now = 1
    /\ last = [op |-> "init"]
    /\ pending = [p \in Procs |-> Idle]

-----------------------------------------------------------------------------
(* The backend calls of one process, one statement per step.  pending holds
   the module's flag initialized and, for each store call in flight, the
   function it runs and where it stands; last.created counts the CREATE
   TABLE statements that the database has executed. *)

StoreCalls == {"readKV", "writeKV", "deleteKV"}

NoCall == [pc |-> "idle", op |-> ""]

InitTables ==
    /\ kv = <<>>
    /\ now = 1
    /\ last = [op |-> "init"]
    /\ pending = [initialized |-> FALSE, calls |-> [p \in Procs |-> NoCall]]

Created == IF "created" \in DOMAIN last THEN last.created ELSE 0

\* readKV, writeKV or deleteKV is called with DATABASE_URL set and runs up
\* to its first await: ensureTables() returns at once when initialized is
\* set, and sends CREATE TABLE when it is not.
StoreCallBegin(p, op) ==
    /\ pending.calls[p].pc = "idle"
    /\ pending' = [pending EXCEPT !.calls[p] =
           [pc |-> IF pending.initialized THEN "statement" ELSE "createTable", op |-> op]]
    /\ UNCHANGED <<kv, now, last>>

\* The CREATE TABLE of request p: executed, after which ensureTables sets
\* initialized; or failed, which the caller's catch turns into its return.
CreateTable(p, ok) ==
    /\ pending.calls[p].pc = "createTable"
    /\ pending' = IF ok THEN [pending EXCEPT !.initialized = TRUE, !.calls[p].pc = "statement"]
                  ELSE [pending EXCEPT !.calls[p] = NoCall]
    /\ last' = IF ok THEN [op |-> "ensureTables", created |-> Created + 1] ELSE last
    /\ UNCHANGED <<kv, now>>

\* The SELECT, INSERT or DELETE of request p on the pointer's key; the call
\* returns.
Statement(p, value) ==
    /\ pending.calls[p].pc = "statement"
    /\ kv' = CASE pending.calls[p].op = "readKV" -> kv
                [] pending.calls[p].op = "writeKV" -> writeKV(kv, CURRENT_RUN_ID_KEY, value)
                [] pending.calls[p].op = "deleteKV" -> deleteKV(kv, CURRENT_RUN_ID_KEY)
    /\ pending' = [pending EXCEPT !.calls[p] = NoCall]
    /\ UNCHANGED <<now, last>>

-----------------------------------------------------------------------------
(* Specifications *)

\* Registry, migration and pointer: every handler, on every run id, while
\* at most one cleanup request is between its delete loop and its pointer step.
Next ==
    \/ Tick
    \/ \E runId \in RunIds, ev \in RegEvs : AppendEvaluation(runId, ev)
    \/ \E ev \in RegEvs : AppendLegacyEvaluation(ev)
    \/ GetRunIds
    \/ GetCurrentRunId
    \/ GetOrCreateCurrentRunId
    \/ \E preferredRunId \in {Null, "2"} : StartNewCurrentRun(preferredRunId)
    \/ GetLatestRunId
    \/ CleanupRunsDelete
    \/ CleanupRunsPointer

Spec == Init /\ [][Next]_vars

\* Retention: runs that hold different numbers of evaluations.
NextRetention ==
    \/ Tick
    \/ \E runId \in NamespacedRunIds, ev \in StoreEvs :
           ev.pr_number \in NextPrs(kv, runId) /\ AppendEvaluation(runId, ev)
    \/ \E ev \in StoreEvs :
           ev.pr_number \in NextPrs(kv, LEGACY_RUN_ID) /\ AppendLegacyEvaluation(ev)
    \/ \E preferredRunId \in {Null, LEGACY_RUN_ID} : StartNewCurrentRun(preferredRunId)
    \/ GetLatestRunId
    \/ CleanupRuns

SpecRetention == Init /\ [][NextRetention]_vars

\* Evaluation writes, direct and through the push route.
NextEval ==
    \/ \E runId \in EvalRunIds, ev \in EvalEvs : AppendEvaluation(runId, ev)
    \/ \E body \in EvalBodies : PushPOST(TRUE, TRUE, body)
    \/ \E body \in BatchBodies : PushPOST(TRUE, TRUE, body)
    \/ \E secretSet \in BOOLEAN, authOk \in BOOLEAN, body \in UnknownBodies :
           PushPOST(secretSet, authOk, body)

SpecEval == Init /\ [][NextEval]_vars

\* The comparator, on every pair of stored evaluation lists.
NextCmp == \E pair \in CmpPairs : GetRunComparison(pair[1], pair[2])

SpecCmp == InitCmp /\ [][NextCmp]_vars

\* The comparator, on stored records of every shape.
NextItems == \E pair \in CmpPairs : GetRunComparison(pair[1], pair[2])

SpecItems == InitItems /\ [][NextItems]_vars

\* The accessors of every collection kind on every scope of run id, legacy
\* data written and migrated, and cleanups in between.
NextAccessors ==
    \/ \E kind \in AccessorKinds, runId \in AccessorRunIds : SetCollection(kind, runId)
    \/ \E ev \in RegEvs : Cardinality(DOMAIN kv) <= MaxKeys /\ AppendLegacyEvaluation(ev)
    \/ GetRunIds
    \/ CleanupRuns

SpecAccessors == Init /\ [][NextAccessors]_vars

\* Legacy data of every kind, lists written empty or not, and getRunIds()
\* on whatever is stored.
NextLegacy ==
    \/ \E kind \in AccessorKinds, empty \in BOOLEAN :
           (empty => kind \in ListKinds) /\ SetLegacyCollection(kind, empty)
    \/ GetRunIds

SpecLegacy == Init /\ [][NextLegacy]_vars

\* Cluster writes, direct and through the push route.
NextClusters ==
    \/ \E runId \in NamespacedRunIds, data \in ClusterLists : SetClusters(runId, data)
    \/ \E body \in ClusterBodies : PushPOST(TRUE, TRUE, body)

SpecClusters == Init /\ [][NextClusters]_vars

\* Metadata patches on runs that exist and on runs that do not.
NextMeta ==
    \/ Tick
    \/ \E runId \in EvalRunIds, c \in PatchChoices : SetRunMeta(runId, Patch(c))

SpecMeta == Init /\ [][NextMeta]_vars

\* The write accessors of every kind on the legacy id and on run "1", over
\* legacy data of one kind and a pointer that names run "2".  A collection
\* is written while fewer than MaxWritten collections are stored.
MaxWritten == 2

WrittenKeys(s) ==
    {key \in DOMAIN s : \E runId \in EvalRunIds, kind \in DataKinds \ {"meta"} :
                            key = runKey(runId, kind)}

MayWrite == Cardinality(WrittenKeys(kv)) < MaxWritten

NextWrites ==
    \/ \E kind \in AccessorKinds : kv = <<>> /\ SetLegacyCollection(kind, FALSE)
    \/ StartNewCurrentRun("2")
    \/ \E kind \in AccessorKinds, runId \in EvalRunIds : MayWrite /\ SetCollection(kind, runId)
    \/ \E runId \in EvalRunIds : MayWrite /\ SetPromptBundle(runId)
    \/ \E runId \in EvalRunIds, ev \in RegEvs : MayWrite /\ AppendEvaluation(runId, ev)
    \/ \E runId \in EvalRunIds, c \in EventPatchChoices : SetRunMeta(runId, Patch(c))

SpecWrites == Init /\ [][NextWrites]_vars

\* Collection writes between metadata patches, lifecycle events and
\* cleanups, on the legacy id and on run "1", over legacy data or not.  A
\* collection is written while fewer than MaxCollections are stored, and
\* the patches set a kind and a status.
MaxCollections == 1

MayWriteOne == Cardinality(WrittenKeys(kv)) < MaxCollections

LifecyclePatchChoices == {c \in EventPatchChoices : c["kind"] = 2 /\ c["status"] = 2}

NextLifecycle ==
    \/ \E ev \in RegEvs : kv = <<>> /\ AppendLegacyEvaluation(ev)
    \/ \E kind \in AccessorKinds, runId \in EvalRunIds :
           MayWriteOne /\ SetCollection(kind, runId)
    \/ \E runId \in EvalRunIds : MayWriteOne /\ SetPromptBundle(runId)
    \/ \E runId \in EvalRunIds, ev \in RegEvs : MayWriteOne /\ AppendEvaluation(runId, ev)
    \/ \E runId \in EvalRunIds, c \in LifecyclePatchChoices : SetRunMeta(runId, Patch(c))
    \/ \E runId \in EvalRunIds, event \in RunEvents : AppendRunEvent(runId, event)
    \/ CleanupRuns

SpecLifecycle == Init /\ [][NextLifecycle]_vars

\* Lifecycle events and metadata patches on the legacy run and on run "1".
NextEvents ==
    \/ Tick
    \/ \E runId \in EvalRunIds, event \in RunEvents : AppendRunEvent(runId, event)
    \/ \E runId \in EvalRunIds, c \in EventPatchChoices : SetRunMeta(runId, Patch(c))

SpecEvents == Init /\ [][NextEvents]_vars

\* The routes: requests with and without a configured secret and a matching
\* Authorization header, well-formed and not.
NextRoutes ==
    \/ Tick
    \/ \E secretSet \in BOOLEAN, authOk \in BOOLEAN, body \in RouteBodies :
           PushPOST(secretSet, authOk, body)
    \/ \E secretSet \in BOOLEAN, authOk \in BOOLEAN, body \in TraceBodies :
           TracePOST(secretSet, authOk, body)
    \/ \E secretSet \in BOOLEAN, authOk \in BOOLEAN : CleanupPOST(secretSet, authOk)
    \/ \E runA \in {Null, "1"}, runB \in {Null, "2"} : CompareGET(runA, runB)

SpecRoutes == Init /\ [][NextRoutes]_vars

\* Requests while the backend is reachable, and requests during outages.
NextOutage ==
    \/ Tick
    \/ \E runId \in RunIds, ev \in RegEvs : AppendEvaluation(runId, ev)
    \/ \E ev \in RegEvs : AppendLegacyEvaluation(ev)
    \/ \E preferredRunId \in {Null, "2"} : StartNewCurrentRun(preferredRunId)
    \/ GetCurrentRunId
    \/ \E op \in OutageReads \cup OutageWrites, runId \in RunIds, ev \in RegEvs :
           Outage(op, runId, ev)

SpecOutage == Init /\ [][NextOutage]_vars

\* A request takes the first free slot, and one deleteRun runs at a time.
FirstIdle(p) == pending[p].pc = "idle" /\ \A q \in 1..(p - 1) : pending[q].pc # "idle"

NoDeleteRun == \A q \in Procs : pending[q].op # "deleteRun"

\* Requests that interleave at their backend calls, whose writes and deletes
\* may fail: appendEvaluation and deleteRun on every run id, over legacy data
\* written before.
NextSteps ==
    \/ \E ev \in RegEvs : (\A p \in Procs : pending[p].pc = "idle") /\ kv = <<>>
                              /\ AppendLegacyEvaluation(ev)
    \/ \E p \in Procs, runId \in NamespacedRunIds, ev \in RegEvs :
           FirstIdle(p) /\ AppendEvaluationBegin(p, runId, ev)
    \/ \E p \in Procs, runId \in RunIds :
           FirstIdle(p) /\ NoDeleteRun /\ DeleteRunBegin(p, runId)
    \/ \E p \in Procs : MigrationRead(p)
    \/ \E p \in Procs, ok \in BOOLEAN : MigrationRegistryWrite(p, ok)
    \/ \E p \in Procs, ok \in BOOLEAN : MigrationMetaWrite(p, ok)
    \/ \E p \in Procs : GetRunIdsRead(p)
    \/ \E p \in Procs, ok \in BOOLEAN : EnsureRunRegistryWrite(p, ok)
    \/ \E p \in Procs : EnsureRunMetaRead(p)
    \/ \E p \in Procs, ok \in BOOLEAN : EnsureRunMetaWrite(p, ok)
    \/ \E p \in Procs, ok \in BOOLEAN : SetEvaluationsWrite(p, ok)
    \/ \E p \in Procs, group \in DeleteGroups(LEGACY_RUN_ID) \cup DeleteGroups("1"), ok \in BOOLEAN :
           DeleteRunKey(p, group, ok)
    \/ \E p \in Procs, ok \in BOOLEAN : DeleteRunRegistryWrite(p, ok)

SpecSteps == InitSteps /\ [][NextSteps]_vars

\* Concurrent appendEvaluation calls on one run, the backend reachable.
NextRace ==
    \/ \E p \in Procs : RaceBegin(p)
    \/ \E p \in Procs : MigrationRead(p)
    \/ \E p \in Procs : GetRunIdsRead(p)
    \/ \E p \in Procs : EnsureRunRegistryWrite(p, TRUE)
    \/ \E p \in Procs : EnsureRunMetaRead(p)
    \/ \E p \in Procs : EnsureRunMetaWrite(p, TRUE)
    \/ \E p \in Procs : AppendEvaluationReturn(p)

SpecRace == InitSteps /\ [][NextRace]_vars

\* Concurrent evaluation pushes, single and batched, on the legacy id and on
\* one namespaced run, the collection's write failing or not.
NextPushes ==
    \/ \E p \in Procs, runId \in EvalRunIds, data \in Batches :
           PushEvaluationsBegin(p, runId, data)
    \/ \E p \in Procs : MigrationRead(p)
    \/ \E p \in Procs : GetRunIdsRead(p)
    \/ \E p \in Procs : EnsureRunRegistryWrite(p, TRUE)
    \/ \E p \in Procs : EnsureRunMetaRead(p)
    \/ \E p \in Procs : EnsureRunMetaWrite(p, TRUE)
    \/ \E p \in Procs, ok \in BOOLEAN : PushEvaluationsWrite(p, ok)
    \/ \E p \in Procs : PushEvaluationsNext(p)

SpecPushes == InitSteps /\ [][NextPushes]_vars

\* One request at a time, each of whose backend calls may fail on its own:
\* appendEvaluation, getRunIds() and getCurrentRunId() on a store that holds
\* legacy data, the legacy run and run "1" registered, run "1" current.
AllIdle == \A q \in Procs : pending[q].pc = "idle"

NextFaults ==
    \/ \E p \in Procs, runId \in NamespacedRunIds, ev \in RegEvs :
           AllIdle /\ FirstIdle(p) /\ AppendEvaluationBegin(p, runId, ev)
    \/ \E p \in Procs : AllIdle /\ FirstIdle(p) /\ GetRunIdsBegin(p)
    \/ \E p \in Procs, ok \in BOOLEAN : AllIdle /\ FirstIdle(p) /\ GetCurrentRunIdBegin(p, ok)
    \/ \E p \in Procs, ok \in BOOLEAN : MigrationReadTry(p, ok)
    \/ \E p \in Procs, ok \in BOOLEAN : MigrationRegistryWrite(p, ok)
    \/ \E p \in Procs, ok \in BOOLEAN : MigrationMetaWrite(p, ok)
    \/ \E p \in Procs, ok \in BOOLEAN : GetRunIdsReadTry(p, ok)
    \/ \E p \in Procs, ok \in BOOLEAN : EnsureRunRegistryWrite(p, ok)
    \/ \E p \in Procs, ok \in BOOLEAN : EnsureRunMetaReadTry(p, ok)
    \/ \E p \in Procs, ok \in BOOLEAN : EnsureRunMetaWrite(p, ok)
    \/ \E p \in Procs, ok \in BOOLEAN : SetEvaluationsWrite(p, ok)
    \/ \E p \in Procs, ok \in BOOLEAN : ClearCurrentRunId(p, ok)

SpecFaults == InitFaults /\ [][NextFaults]_vars

\* getCurrentRunId(), startNewCurrentRun() and getOrCreateCurrentRunId()
\* in flight together, the backend reachable, on a store whose pointer
\* names run "1", registered or deleted by a cleanup.
NextPointer ==
    \/ \E p \in Procs : GetCurrentRunIdBegin(p, TRUE)
    \/ \E p \in Procs : GetOrCreateCurrentRunIdBegin(p, TRUE)
    \/ \E p \in Procs, preferredRunId \in {Null, "2"} : StartNewCurrentRunBegin(p, preferredRunId)
    \/ \E p \in Procs : MigrationRead(p)
    \/ \E p \in Procs : GetRunIdsRead(p)
    \/ \E p \in Procs : EnsureRunRegistryWrite(p, TRUE)
    \/ \E p \in Procs : EnsureRunMetaRead(p)
    \/ \E p \in Procs : EnsureRunMetaWrite(p, TRUE)
    \/ \E p \in Procs : ClearCurrentRunId(p, TRUE)
    \/ \E p \in Procs : SetCurrentRunIdWrite(p, TRUE)

SpecPointer == InitPointer /\ [][NextPointer]_vars

\* cleanupRuns() one backend call per step, started before any other
\* request, and appendEvaluation calls that start and return while it runs,
\* the backend reachable.
NextSweep ==
    \/ \E p \in Procs : FirstIdle(p) /\ (\A q \in Procs : pending[q].pc = "idle")
                              /\ last.op = "init" /\ CleanupRunsBegin(p)
    \/ \E p \in Procs : CleanupLoop(p)
    \/ \E p \in Procs : CleanupPointer(p)
    \/ \E p \in Procs, runId \in RunIds, ev \in RegEvs :
           FirstIdle(p) /\ WriteDuringCleanup(p, runId, ev)
    \/ \E p \in Procs : MigrationRead(p)
    \/ \E p \in Procs : GetRunIdsRead(p)
    \/ \E p \in Procs : EnsureRunRegistryWrite(p, TRUE)
    \/ \E p \in Procs : EnsureRunMetaRead(p)
    \/ \E p \in Procs : EnsureRunMetaWrite(p, TRUE)
    \/ \E p \in Procs : AppendEvaluationReturn(p)
    \/ \E p \in Procs, group \in DeleteGroups("1") : DeleteRunKey(p, group, TRUE)
    \/ \E p \in Procs : DeleteRunRegistryWrite(p, TRUE)

SpecSweep == InitSweep /\ [][NextSweep]_vars

\* Store calls of one process that overlap, from its first use of the
\* backend on.
NextTables ==
    \/ \E p \in Procs, op \in StoreCalls : StoreCallBegin(p, op)
    \/ \E p \in Procs, ok \in BOOLEAN : CreateTable(p, ok)
    \/ \E p \in Procs, value \in NamespacedRunIds : Statement(p, value)

SpecTables == InitTables /\ [][NextTables]_vars

-----------------------------------------------------------------------------
(* Evaluation upsert *)

\* The records of q that carry pr_number pr, in order.
RecordsOf(q, pr) == SelectSeq(q, LAMBDA e : e.pr_number = pr)

\* appendEvaluation(r, ev) turned before, the evaluations read from run r,
\* into after: the record with ev's pr_number replaced where it stood, or ev
\* added at the end.
IsUpsertOf(before, after, ev) ==
    IF \E i \in 1..Len(before) : before[i].pr_number = ev.pr_number
    THEN \E i \in 1..Len(before) :
             /\ before[i].pr_number = ev.pr_number
             /\ after = [before EXCEPT ![i] = ev]
    ELSE /\ Len(after) = Len(before) + 1
         /\ after = Append(before, ev)

\* C1: for every run id r, appendEvaluation(r, ev) replaces the stored record
\* that has ev's pr_number in place (length and every other record unchanged)
\* and otherwise appends ev at the end (length + 1), as getEvaluations(r)
\* reads the run before and after the call.
C1_AppendEvaluationUpserts ==
    [][last'.op = "appendEvaluation" =>
          IsUpsertOf(getEvaluations(kv, last'.run), getEvaluations(kv', last'.run), last'.ev)]_vars

\* The same for the run ids outside the legacy scope.
AppendEvaluationUpsertsNamespaced ==
    [][last'.op = "appendEvaluation" /\ ~isLegacyScope(last'.run) =>
          IsUpsertOf(getEvaluations(kv, last'.run), getEvaluations(kv', last'.run), last'.ev)]_vars

\* The handler recorded in l wrote evaluations to an explicit run id.
IsEvalWrite(l) ==
    \/ l.op = "appendEvaluation"
    \/ /\ l.op = "push"
       /\ l.ret.status = 200
       /\ l.body.run_id # Null
       /\ l.body.type \in {"evaluation", "evaluations_batch"}

WrittenRun(l) == IF l.op = "appendEvaluation" THEN l.run ELSE l.body.run_id

WrittenEvs(l) ==
    IF l.op = "appendEvaluation" THEN <<l.ev>>
    ELSE IF l.body.type = "evaluation" THEN <<l.body.data>>
    ELSE l.body.data

LastWriteWins(before, after, evs) ==
    \A pr \in Prs :
        LET mine == RecordsOf(evs, pr)
        IN  IF Len(mine) > 0
            THEN RecordsOf(after, pr) = <<mine[Len(mine)]>>
            ELSE RecordsOf(after, pr) = RecordsOf(before, pr)

\* C2: a series of evaluation writes to one explicit run id leaves, in
\* getEvaluations(run), exactly one record per pr_number written, the one of
\* the most recent write.  Step by step: after each write the run reads one
\* record for every pr_number just written, the last one written, and the
\* records of every other pr_number as they were.
C2_LastWriteWins ==
    [][IsEvalWrite(last') =>
          LastWriteWins(getEvaluations(kv, WrittenRun(last')),
                        getEvaluations(kv', WrittenRun(last')), WrittenEvs(last'))]_vars

\* The same for the run ids outside the legacy scope.
LastWriteWinsNamespaced ==
    [][IsEvalWrite(last') /\ ~isLegacyScope(WrittenRun(last')) =>
          LastWriteWins(getEvaluations(kv, WrittenRun(last')),
                        getEvaluations(kv', WrittenRun(last')), WrittenEvs(last'))]_vars

-----------------------------------------------------------------------------
(* Registry, pointer and migration *)

Registry(s) == readKV(s, RUNS_KEY, <<>>)

CurrentPointer(s) == readKV(s, CURRENT_RUN_ID_KEY, Null)

\* The handlers that call ensureRun(l.run) on every path.
CallsEnsureRun(l) == l.op \in {"appendEvaluation", "startNewCurrentRun"}

\* C3: after any number of ensureRun(id) calls, made by whichever handler,
\* the registry lists id exactly once; and no id is ever listed twice.
C3_EnsureRunOnce ==
    /\ \A id \in Range(Registry(kv)) : Count(Registry(kv), id) = 1
    /\ CallsEnsureRun(last) => Count(Registry(kv), last.run) = 1

\* ensureRun("2") has run at least twice: once for the pointer, once for the
\* evaluation written last.
C3_Witness ==
    /\ last.op = "appendEvaluation"
    /\ last.run = "2"
    /\ CurrentPointer(kv) = "2"
    /\ Len(Registry(kv)) >= 2
    /\ Count(Registry(kv), "2") = 1

\* C4: getCurrentRunId() returns the stored pointer or null, and never an id
\* that the registry does not list; when the stored pointer names a run the
\* registry no longer lists, it returns null and leaves no pointer key, so
\* that the next call returns null too.
C4_NoDanglingPointer ==
    [][last'.op = "getCurrentRunId" =>
          /\ last'.ret # Null =>
                 /\ last'.ret = CurrentPointer(kv)
                 /\ last'.ret \in Range(Registry(kv'))
          /\ CurrentPointer(kv) # Null /\ CurrentPointer(kv) \notin Range(Registry(kv')) =>
                 /\ last'.ret = Null
                 /\ ~HasKey(kv', CURRENT_RUN_ID_KEY)
                 /\ getCurrentRunId(kv', now').ret = Null]_vars

\* getCurrentRunId() read a pointer whose run a cleanup had deleted.
C4_Witness ==
    /\ last.op = "getCurrentRunId"
    /\ last.read # Null
    /\ last.read \notin Range(Registry(kv))
    /\ last.ret = Null
    /\ ~HasKey(kv, CURRENT_RUN_ID_KEY)

\* The record that only the migration writes: a legacy metadata record
\* without a status.
IsMigrationMeta(s) ==
    /\ HasKey(s, runKey(LEGACY_RUN_ID, "meta"))
    /\ "status" \notin DOMAIN s[runKey(LEGACY_RUN_ID, "meta")]

\* Between s and s2 the migration wrote the registry or the legacy metadata.
MigrationWrote(s, s2) ==
    \/ /\ Registry(s2) = <<LEGACY_RUN_ID>>
       /\ LEGACY_RUN_ID \notin Range(Registry(s))
    \/ /\ IsMigrationMeta(s2)
       /\ ~(IsMigrationMeta(s) /\ s[runKey(LEGACY_RUN_ID, "meta")] = s2[runKey(LEGACY_RUN_ID, "meta")])

\* C5: once the registry is non-empty it stays non-empty, and from then on
\* no handler's getRunIds() writes the registry or the legacy metadata on
\* account of the legacy data: getRunIds() itself changes nothing and returns
\* the registry as stored.
C5_MigrationOnce ==
    [][Len(Registry(kv)) > 0 =>
          /\ Len(Registry(kv')) > 0
          /\ ~MigrationWrote(kv, kv')
          /\ last'.op = "getRunIds" => kv' = kv /\ last'.ret = Registry(kv)]_vars

\* getRunIds() ran on a non-empty registry without the legacy run while the
\* legacy keys held data.
C5_Witness ==
    /\ last.op = "getRunIds"
    /\ Len(Registry(kv)) > 0
    /\ LEGACY_RUN_ID \notin Range(Registry(kv))
    /\ hasLegacyData(kv)

-----------------------------------------------------------------------------
(* Retention *)

\* The keys that hold run id's metadata and collections.
RunKeys(id) ==
    {runKey(id, kind) : kind \in DataKinds} \cup
    (IF isLegacyScope(id)
     THEN {LEGACY_SUMMARY_KEY, LEGACY_EVALUATIONS_KEY, LEGACY_CLUSTERS_KEY,
           LEGACY_RANKING_KEY, LEGACY_AGENT_TRACE_KEY}
     ELSE {})

\* What the store holds under the keys ks.
Under(s, ks) == [k \in ks \cap DOMAIN s |-> s[k]]

Ids(runs) == {runs[i].id : i \in 1..Len(runs)}

\* The largest evaluation count among the listed runs, and the first listed
\* run that has it.
MaxCount(s, runs) ==
    CHOOSE c \in {getEvaluationCount(s, runs[i].id) : i \in 1..Len(runs)} :
        \A j \in 1..Len(runs) : getEvaluationCount(s, runs[j].id) <= c

FirstWithCount(s, runs, c) ==
    runs[CHOOSE i \in 1..Len(runs) :
             /\ getEvaluationCount(s, runs[i].id) = c
             /\ \A j \in 1..(i - 1) : getEvaluationCount(s, runs[j].id) # c].id

\* C6 as stated: every id cleanupRuns() reports in kept_run_ids is in the
\* registry after the call, and the call leaves that run's metadata and all
\* of its collections as they were.
C6_KeptRunsUnchanged ==
    [][last'.op = "cleanupRuns" =>
          \A id \in Range(last'.ret.kept_run_ids) :
              /\ id \in Range(Registry(kv'))
              /\ Under(kv', RunKeys(id)) = Under(kv, RunKeys(id))]_vars

\* C6, amended: every id cleanupRuns() reports in kept_run_ids is in the
\* registry after the call and all of its collections are unchanged; its
\* metadata is unchanged when the run was registered before the call, and
\* otherwise the run is the legacy run, which the call's own lazy migration
\* registered and whose metadata record that migration wrote.
C6_KeptRunsUnchangedButMigration ==
    [][last'.op = "cleanupRuns" =>
          \A id \in Range(last'.ret.kept_run_ids) :
              /\ id \in Range(Registry(kv'))
              /\ Under(kv', RunKeys(id) \ {runKey(id, "meta")})
                     = Under(kv, RunKeys(id) \ {runKey(id, "meta")})
              /\ id \in Range(Registry(kv)) =>
                     Under(kv', RunKeys(id)) = Under(kv, RunKeys(id))
              /\ id \notin Range(Registry(kv)) =>
                     /\ id = LEGACY_RUN_ID
                     /\ Registry(kv) = <<>>
                     /\ kv' = ensureLegacyRunMigration(kv, now)]_vars

\* cleanupRuns() deleted two runs and kept one that holds two evaluations.
C6_Witness ==
    /\ last.op = "cleanupRuns"
    /\ Len(last.ret.deleted_run_ids) = 2
    /\ Len(last.ret.kept_run_ids) = 1
    /\ getEvaluationCount(kv, last.ret.kept_run_ids[1]) = 2
    /\ HasKey(kv, runKey(last.ret.kept_run_ids[1], "meta"))

\* C7: a cleanupRuns() that directly follows a cleanupRuns() returns an empty
\* deleted_run_ids and the kept_run_ids of the first call, and changes no key
\* of the store (registry, pointer, run keys); and whatever the clock reads,
\* a cleanupRuns() on the store a cleanupRuns() left would do the same.
C7_CleanupIdempotent ==
    [][last'.op = "cleanupRuns" =>
          /\ Len(last'.prev) = 1 =>
                 /\ last'.ret.deleted_run_ids = <<>>
                 /\ last'.ret.kept_run_ids = last'.prev[1].kept_run_ids
                 /\ last'.ret.kept_run_ids = last.ret.kept_run_ids
                 /\ kv' = kv
          /\ \A t \in Times :
                 /\ cleanupRuns(kv', t).kv = kv'
                 /\ cleanupRuns(kv', t).ret.deleted_run_ids = <<>>
                 /\ cleanupRuns(kv', t).ret.kept_run_ids = last'.ret.kept_run_ids]_vars

\* The second of two cleanupRuns() in a row, the first of which deleted a
\* run and kept two.
C7_Witness ==
    /\ last.op = "cleanupRuns"
    /\ Len(last.prev) = 1
    /\ Len(last.prev[1].deleted_run_ids) > 0
    /\ Len(last.prev[1].kept_run_ids) = 2
    /\ CurrentPointer(kv) # Null

\* Three runs are listed and they hold MaxPr, 1 and 0 evaluations.
ThreeRunsScenario(s, runs) ==
    /\ Len(runs) = 3
    /\ {getEvaluationCount(s, runs[i].id) : i \in 1..3} = {MaxPr, 1, 0}

\* The protected set of the runs listed: the first listed run with the
\* largest evaluation count, and the run getLatestRunId() picks.
Protected(s, runs, t) ==
    {FirstWithCount(s, runs, MaxCount(s, runs)), getLatestRunId(s, t).ret}

\* After cleanupRuns() the registry is exactly the protected set, which is
\* also what kept_run_ids lists, and deleted_run_ids lists exactly the other
\* runs that were registered, none of which the registry lists any more.
KeepsExactlyProtected(s, runs, s2, ret, t) ==
    IF Len(runs) = 0
    THEN Registry(s2) = <<>> /\ ret.kept_run_ids = <<>> /\ ret.deleted_run_ids = <<>>
    ELSE /\ Cardinality(Protected(s, runs, t)) \in {1, 2}
         /\ Range(Registry(s2)) = Protected(s, runs, t)
         /\ Len(Registry(s2)) = Cardinality(Protected(s, runs, t))
         /\ Range(ret.kept_run_ids) = Protected(s, runs, t)
         /\ Range(ret.deleted_run_ids) = Ids(runs) \ Protected(s, runs, t)
         /\ Len(ret.deleted_run_ids) = Cardinality(Ids(runs) \ Protected(s, runs, t))
         /\ Protected(s2, getRuns(s2, t).ret, t) = Protected(s, runs, t)

\* C8: after a cleanupRuns() with no concurrent writer the registry is
\* exactly the protected set {first run with the largest evaluation count,
\* getLatestRunId()}, of at most two ids; every other run that was registered
\* is listed in deleted_run_ids and deleted, that is, gone from the registry
\* with no key of its own left in the store; and of three runs that hold the
\* largest count, 1 and 0 evaluations, the fullest run and the
\* getLatestRunId() pick are the runs kept and the run without evaluations
\* is deleted.
C8_OnlyProtectedRunsRemain ==
    [][last'.op = "cleanupRuns" =>
          /\ KeepsExactlyProtected(getRuns(kv, now).kv, getRuns(kv, now).ret,
                                   kv', last'.ret, now)
          /\ \A id \in Range(last'.ret.deleted_run_ids) :
                 RunKeys(id) \cap DOMAIN kv' = {}
          /\ ThreeRunsScenario(getRuns(kv, now).kv, getRuns(kv, now).ret) =>
                 \E id \in Range(last'.ret.deleted_run_ids) :
                     getEvaluationCount(kv, id) = 0]_vars

\* What of that holds: the registry is exactly the protected set, every
\* other run that was registered has left the registry and is listed in
\* deleted_run_ids, and no key of a deleted run is left but the metadata
\* record of the legacy run; of three runs that hold the largest count, 1
\* and 0 evaluations, getLatestRunId() picks the fullest, which alone is
\* kept, and both other runs are deleted.
CleanupKeepsExactlyProtected ==
    [][last'.op = "cleanupRuns" =>
          /\ KeepsExactlyProtected(getRuns(kv, now).kv, getRuns(kv, now).ret,
                                   kv', last'.ret, now)
          /\ \A id \in Range(last'.ret.deleted_run_ids) :
                 RunKeys(id) \cap DOMAIN kv' \subseteq
                     {k \in {runKey(LEGACY_RUN_ID, "meta")} : id = LEGACY_RUN_ID}
          /\ ThreeRunsScenario(getRuns(kv, now).kv, getRuns(kv, now).ret) =>
                 /\ getLatestRunId(kv, now).ret = last'.ret.legacy_run_id
                 /\ last'.ret.kept_run_ids = <<last'.ret.legacy_run_id>>
                 /\ getEvaluationCount(kv', last'.ret.legacy_run_id) = MaxPr
                 /\ Len(last'.ret.deleted_run_ids) = 2]_vars

\* cleanupRuns() ran on three runs that held MaxPr, 1 and 0 evaluations, the
\* fullest of them not the first one listed.
ThreeRunsCleanedUp ==
    /\ last.op = "cleanupRuns"
    /\ Len(last.counts) = 3
    /\ {last.counts[i].count : i \in 1..3} = {MaxPr, 1, 0}
    /\ last.counts[1].count # MaxPr
    /\ Len(Registry(kv)) = 1

\* C9: getLatestRunId() returns null iff getRunIds() lists no run; otherwise
\* it returns a registered id: the first run of the getRuns() listing that
\* holds the largest evaluation count when that count is > 0, and when every
\* count is 0 the legacy id if it is registered, else the first run listed.
C9_LatestRunPick ==
    [][last'.op = "getLatestRunId" =>
          LET s == getRuns(kv, now).kv
              runs == getRuns(kv, now).ret
          IN  /\ last'.ret = Null <=> getRunIds(kv, now).ret = <<>>
              /\ last'.ret = Null <=> Registry(kv') = <<>>
              /\ Len(runs) > 0 =>
                     /\ last'.ret \in Range(Registry(kv'))
                     /\ MaxCount(s, runs) > 0 =>
                            last'.ret = FirstWithCount(s, runs, MaxCount(s, runs))
                     /\ MaxCount(s, runs) = 0 /\ LEGACY_RUN_ID \in Ids(runs) =>
                            last'.ret = LEGACY_RUN_ID
                     /\ MaxCount(s, runs) = 0 /\ LEGACY_RUN_ID \notin Ids(runs) =>
                            last'.ret = runs[1].id]_vars

\* getLatestRunId() returned run "1", which holds two evaluations, while the
\* listing starts with run "2", which holds one.
C9_Witness ==
    /\ last.op = "getLatestRunId"
    /\ last.ret = "1"
    /\ getRuns(kv, now).ret[1].id = "2"
    /\ getEvaluationCount(kv, "1") = 2
    /\ getEvaluationCount(kv, "2") = 1

-----------------------------------------------------------------------------
(* Comparator *)

PrSet(evals) == {evals[i].pr_number : i \in 1..Len(evals)}

RowsFor(rows, pr) == {i \in 1..Len(rows) : rows[i].pr_number = pr}

\* C10: every pr_number found in run A's or run B's evaluations is the
\* pr_number of exactly one row of getRunComparison(A, B), and every row's
\* pr_number is found in run A's or run B's evaluations.
C10_ComparatorComplete ==
    last.op = "getRunComparison" =>
        /\ \A pr \in PrSet(getEvaluations(kv, last.a)) \cup PrSet(getEvaluations(kv, last.b)) :
               Cardinality(RowsFor(last.ret.rows, pr)) = 1
        /\ \A i \in 1..Len(last.ret.rows) :
               last.ret.rows[i].pr_number \in
                   PrSet(getEvaluations(kv, last.a)) \cup PrSet(getEvaluations(kv, last.b))

\* A comparison of a run that stores pr 1 twice with a run that stores pr 2
\* and pr 1: two rows.
C10_Witness ==
    /\ last.op = "getRunComparison"
    /\ prNumbers(getEvaluations(kv, last.a)) = <<1, 1>>
    /\ prNumbers(getEvaluations(kv, last.b)) = <<2, 1>>
    /\ Len(last.ret.rows) = 2

\* A nullable number negated.
Negated(d) == IF d = <<>> THEN <<>> ELSE <<-d[1]>>

\* The row with delta negated and the score and rank columns of the two
\* sides swapped.
SwapScoresAndRanks(row) ==
    [row EXCEPT !.delta = Negated(row.delta),
                !.run_a_score = row.run_b_score, !.run_b_score = row.run_a_score,
                !.rank_a = row.rank_b, !.rank_b = row.rank_a]

\* The same with the justification columns swapped too.
SwapSides(row) ==
    [SwapScoresAndRanks(row) EXCEPT !.justification_a = row.justification_b,
                                    !.justification_b = row.justification_a]

RowSet(rows) == {rows[i] : i \in 1..Len(rows)}

\* The item that a comparison shows for pr on the side of the run.
ShownItem(s, runId, pr) == mapGet(prNumbers(getEvaluations(s, runId)), getEvaluations(s, runId), pr)

HasTitle(item) == item # <<>> /\ "title" \in DOMAIN item[1]

\* C11 as stated: getRunComparison(A, B) and getRunComparison(B, A) have the
\* same number of rows, and the rows of the second are the rows of the first
\* with delta negated and the score and rank columns swapped, every other
\* column the same.
C11_ComparatorSymmetric ==
    last.op = "getRunComparison" =>
        /\ Len(getRunComparison(kv, last.b, last.a).rows) = Len(last.ret.rows)
        /\ RowSet(getRunComparison(kv, last.b, last.a).rows)
               = {SwapScoresAndRanks(row) : row \in RowSet(last.ret.rows)}

\* C11, amended: getRunComparison(A, B) and getRunComparison(B, A) have the
\* same number of rows, one per pr_number, and the row of the second for a
\* pr_number is the row of the first with delta negated and the score, rank
\* and justification columns of the two sides swapped; the title is the same
\* unless both runs' items carry a title, and then each comparison shows the
\* title of its own first run.
C11_SymmetricButTitleAndJustification ==
    last.op = "getRunComparison" =>
        /\ Len(getRunComparison(kv, last.b, last.a).rows) = Len(last.ret.rows)
        /\ \A row \in RowSet(last.ret.rows) :
               \E back \in RowSet(getRunComparison(kv, last.b, last.a).rows) :
                   /\ [back EXCEPT !.title = row.title] = SwapSides(row)
                   /\ IF HasTitle(ShownItem(kv, last.a, row.pr_number))
                         /\ HasTitle(ShownItem(kv, last.b, row.pr_number))
                      THEN /\ row.title = ShownItem(kv, last.a, row.pr_number)[1].title
                           /\ back.title = ShownItem(kv, last.b, row.pr_number)[1].title
                      ELSE back.title = row.title

\* A comparison whose two runs store pr 1 with different titles and
\* justifications, next to another pr_number that ranks first in one run.
C11_Witness ==
    /\ last.op = "getRunComparison"
    /\ \E row \in RowSet(last.ret.rows) :
           /\ row.pr_number = 1
           /\ row.title = "T1"
           /\ row.justification_a = "J1"
           /\ row.justification_b = "R1"
           /\ row.rank_a = <<2>>
           /\ row.delta = <<200000>>
    /\ Len(last.ret.rows) >= 2

\* final_score if present, else final_rank_score, else score, else 0.
StatedScore(item) ==
    CASE "final_score" \in DOMAIN item -> item.final_score
      [] "final_score" \notin DOMAIN item /\ "final_rank_score" \in DOMAIN item ->
             item.final_rank_score
      [] {"final_score", "final_rank_score"} \cap DOMAIN item = {} /\ "score" \in DOMAIN item ->
             item.score
      [] OTHER -> 0

\* score is null when the run stores no item with pr, and else the stated
\* score of an item of the run with that pr_number.
SideScoreIsStated(evals, pr, score) ==
    IF pr \notin PrSet(evals) THEN score = <<>>
    ELSE /\ score # <<>>
         /\ \E i \in 1..Len(evals) : evals[i].pr_number = pr /\ score[1] = StatedScore(evals[i])

DescendingAbsDelta(rows) ==
    \A i \in 1..Len(rows), j \in 1..Len(rows) :
        i < j /\ rows[i].delta # <<>> /\ rows[j].delta # <<>> =>
            Abs(rows[i].delta[1]) >= Abs(rows[j].delta[1])

\* C13: getRunComparison returns its rows by descending absolute delta, and
\* every row whose delta is null stands before every row that has a delta.
C13_NullDeltaRowsFirst ==
    last.op = "getRunComparison" =>
        /\ DescendingAbsDelta(last.ret.rows)
        /\ \A i \in 1..Len(last.ret.rows), j \in 1..Len(last.ret.rows) :
               last.ret.rows[i].delta = <<>> /\ last.ret.rows[j].delta # <<>> => i < j

\* What the rows do: descending absolute delta, and every row whose delta
\* is null after every row that has a delta.
NullDeltaRowsLast ==
    last.op = "getRunComparison" =>
        /\ DescendingAbsDelta(last.ret.rows)
        /\ \A i \in 1..Len(last.ret.rows), j \in 1..Len(last.ret.rows) :
               last.ret.rows[i].delta = <<>> /\ last.ret.rows[j].delta # <<>> => j < i

-----------------------------------------------------------------------------
(* Registry and metadata, step by step *)

Registered(s) == Range(readKV(s, RUNS_KEY, <<>>))

\* C14: in every reachable state, the states between the backend calls of
\* ensureRun, of the legacy migration and of deleteRun and the states after
\* a failed write included, every id in the registry list has a stored
\* metadata record.
C14_RegisteredRunsHaveMetadata ==
    \A id \in Registered(kv) : HasKey(kv, runKey(id, "meta"))

\* The collection kinds, and the ones stored as lists.
CollectionKinds == DataKinds \ {"meta"}

HoldsData(s, runId, kind) ==
    /\ HasKey(s, runKey(runId, kind))
    /\ kind \in ListKinds => Len(s[runKey(runId, kind)]) > 0

\* C15: in every reachable state, under concurrent requests that write to
\* different new run ids included, a run id that has a run-namespaced
\* collection key holding data is in the registry list.
C15_PopulatedRunsRegistered ==
    \A runId \in RunIds, kind \in CollectionKinds :
        HoldsData(kv, runId, kind) => runId \in Registered(kv)

-----------------------------------------------------------------------------
(* Outages *)

IsOutage(l) == "outage" \in DOMAIN l

\* The typed fallback of each read: null for the pointer, the latest run id
\* and the metadata, the empty list for the registry, the listing and the
\* evaluations, hence a count of 0.
ReturnsFallback(l) ==
    CASE l.op \in {"getRunIds", "getRuns", "getEvaluations"} -> l.ret = <<>>
      [] l.op \in {"getLatestRunId", "getCurrentRunId"} -> l.ret = Null
      [] l.op = "getRunMeta" -> l.ret = <<>>
      [] l.op = "getEvaluationCount" -> l.ret = 0
      [] l.op = "cleanupRuns" -> l.ret.deleted_run_ids = <<>> /\ l.ret.kept_run_ids = <<>>
      [] OTHER -> TRUE

-----------------------------------------------------------------------------
(* Cleanup and the pointer *)

Pointer(s) == readKV(s, CURRENT_RUN_ID_KEY, Null)

\* The step is a cleanupRuns() that deleted the run the pointer named.
CleanupDeletedPointedRun ==
    /\ last'.op = "cleanupRuns"
    /\ Pointer(kv) # Null
    /\ Pointer(kv) \in Range(last'.ret.deleted_run_ids)

\* C17: when cleanupRuns() deletes the run the pointer named, the pointer
\* afterwards names bestRunId if bestRunId is in the protected set, and is
\* cleared only when bestRunId is null or not protected.
C17_PointerRepointedToBest ==
    [][CleanupDeletedPointedRun =>
           Pointer(kv') = IF /\ last'.ret.best_run_id # Null
                             /\ last'.ret.best_run_id \in Range(last'.ret.kept_run_ids)
                          THEN last'.ret.best_run_id
                          ELSE Null]_vars

\* What cleanupRuns() does: the pointer is cleared whenever its run is deleted.
PointerClearedWithItsRun == [][CleanupDeletedPointedRun => Pointer(kv') = Null]_vars

-----------------------------------------------------------------------------
(* The routes *)

\* The step is a write through the push route or the trace route that was
\* answered with ok and whose body names no run.
WriteWithoutRunId ==
    /\ last'.op \in {"push", "trace"}
    /\ last'.ret.status = 200
    /\ last'.body.run_id = Null

ValidPointer(s) == Pointer(s) # Null /\ Pointer(s) \in Registered(s)

\* C18: a push write without run_id goes to the run the pointer names; only
\* when there is no valid pointer a run is allocated, and it is stored as
\* the pointer, so the next push without run_id goes to the same run.
C18_PushWithoutRunIdUsesPointer ==
    [][WriteWithoutRunId /\ last'.op = "push" =>
           /\ ValidPointer(kv) => last'.ret.run_id = Pointer(kv)
           /\ Pointer(kv') = last'.ret.run_id]_vars

\* The trace route does take the pointer's run.
TraceWithoutRunIdUsesPointer ==
    [][WriteWithoutRunId /\ last'.op = "trace" =>
           /\ ValidPointer(kv) => last'.ret.run_id = Pointer(kv)
           /\ Pointer(kv') = last'.ret.run_id]_vars

IsProtectedRequest(l) == l.op \in {"push", "trace", "cleanup"}

\* C19: a request to the push, trace POST or cleanup endpoint that does not
\* carry the bearer token matching the secret is answered with 401 and
\* nothing in the store is touched for it.
C19_OnlyAuthorizedRequestsChangeStore ==
    [][IsProtectedRequest(last') /\ ~last'.auth =>
           last'.ret.status = 401 /\ kv' = kv]_vars

\* With PUSH_SECRET configured that is so.
MismatchRejectedWhenSecretSet ==
    [][IsProtectedRequest(last') /\ last'.secret /\ ~last'.auth =>
           last'.ret.status = 401 /\ kv' = kv]_vars

KnownTypes == {"summary", "evaluation", "evaluations_batch", "clusters", "ranking", "trace"}

Malformed(l) ==
    \/ l.op = "push" /\ (l.body.type \notin KnownTypes \/ "data" \notin DOMAIN l.body)
    \/ l.op = "trace" /\ l.body.trace = <<>>
    \/ l.op = "compare" /\ (l.a = Null \/ l.b = Null)

IsRequest(l) == l.op \in {"push", "trace", "cleanup", "compare"}

\* C20: a malformed request (a push of unknown type or without the data of
\* its type, a trace POST without an array, a compare without a or b) is
\* answered with a client error and changes nothing in the store.
C20_MalformedRequestsRejectedUnchanged ==
    [][IsRequest(last') /\ Malformed(last') =>
           last'.ret.status \in 400..499 /\ kv' = kv]_vars

\* That is so for a push of unknown type, for a compare without a or b, and
\* for a trace POST without an array that names its run.
MalformedRejectedWhenNoStoreCallPrecedes ==
    [][/\ IsRequest(last') /\ Malformed(last')
       /\ last'.op = "push" => "data" \in DOMAIN last'.body
       /\ last'.op = "trace" => last'.body.run_id # Null
       => last'.ret.status \in 400..499 /\ kv' = kv]_vars

-----------------------------------------------------------------------------
(* Reads of unknown runs *)

\* Each read accessor returns null or the empty list for runId.
ReadsDegrade(s, runId) ==
    /\ getSummary(s, runId) = <<>>
    /\ getRanking(s, runId) = <<>>
    /\ getRunMeta(s, runId) = <<>>
    /\ getPromptBundle(s, runId) = <<>>
    /\ getEvaluations(s, runId) = <<>>
    /\ getClusters(s, runId) = <<>>
    /\ getAgentTrace(s, runId) = <<>>

\* The comparison of runId with other has nothing on runId's side: count 0,
\* average 0, no metadata, and no row has a score or a rank of it.
ComparisonDegrades(s, runId, other) ==
    LET c == getRunComparison(s, runId, other)
        d == getRunComparison(s, other, runId)
    IN  /\ c.run_a.scored_count = 0 /\ c.run_a.avg_score = 0 /\ c.run_a.meta = <<>>
        /\ d.run_b.scored_count = 0 /\ d.run_b.avg_score = 0 /\ d.run_b.meta = <<>>
        /\ \A i \in 1..Len(c.rows) : c.rows[i].run_a_score = <<>> /\ c.rows[i].rank_a = <<>>
        /\ \A i \in 1..Len(d.rows) : d.rows[i].run_b_score = <<>> /\ d.rows[i].rank_b = <<>>
        /\ other = runId => c.rows = <<>>

-----------------------------------------------------------------------------
(* Write and read accessors *)

\* What the read accessor of kind returns when the value the write accessor
\* stored at time t is the stored one.
ReadBack(kind, t) ==
    CASE kind = "summary" -> <<spread(AccessorData(kind), [last_updated |-> t])>>
      [] kind = "ranking" -> <<AccessorData(kind)>>
      [] OTHER -> AccessorData(kind)

\* C22: for every collection kind and every run id, "legacy" and "latest"
\* included, the value the write accessor has just written under the id is
\* the value the read accessor returns for the id.
C22_ReadReturnsWhatWasWritten ==
    last.op = "setCollection" =>
        getCollection(kv, last.kind, last.run) = ReadBack(last.kind, now)

\* That is so for the ids outside the legacy scope.
NamespacedReadReturnsWhatWasWritten ==
    last.op = "setCollection" /\ ~isLegacyScope(last.run) =>
        getCollection(kv, last.kind, last.run) = ReadBack(last.kind, now)

-----------------------------------------------------------------------------
(* Cluster writes *)

\* The step writes clusters to a run, directly or through the push route.
IsClusterWrite(l) ==
    \/ l.op = "setClusters"
    \/ l.op = "push" /\ l.body.type = "clusters" /\ l.ret.status = 200

ClusterRun(l) == IF l.op = "push" THEN l.ret.run_id ELSE l.run

ClusterData(l) == IF l.op = "push" THEN l.body.data ELSE l.data

ClusterIds(q) == {q[i].cluster_id : i \in 1..Len(q)}

\* new is old after an upsert of the records of data by cluster_id: a stored
\* cluster with an id that data does not carry is kept where it was, a
\* stored cluster with an id of data is replaced in place by the last
\* record of data with that id, and the records with new ids follow.
IsClusterUpsert(old, data, new) ==
    /\ Len(new) >= Len(old)
    /\ \A i \in 1..Len(old) :
           IF old[i].cluster_id \in ClusterIds(data)
           THEN new[i].cluster_id = old[i].cluster_id /\ new[i] \in Range(data)
           ELSE new[i] = old[i]
    /\ \A i \in (Len(old) + 1)..Len(new) :
           new[i] \in Range(data) /\ new[i].cluster_id \notin ClusterIds(old)
    /\ ClusterIds(data) \subseteq ClusterIds(new)

\* C23: a write of clusters to a run is an upsert by cluster_id: matching
\* clusters are replaced in place, new ones appended, and the stored
\* clusters the write does not mention are kept.
C23_ClustersUpserted ==
    [][IsClusterWrite(last') =>
           IsClusterUpsert(getClusters(kv, ClusterRun(last')), ClusterData(last'),
                           getClusters(kv', ClusterRun(last')))]_vars

\* What the write does: the stored list is the incoming list.
ClustersOverwritten ==
    [][IsClusterWrite(last') => getClusters(kv', ClusterRun(last')) = ClusterData(last')]_vars

-----------------------------------------------------------------------------
(* Metadata patches *)

\* obj.f, undefined being <<>>.
Field(obj, f) == IF f \in DOMAIN obj THEN <<obj[f]>> ELSE <<>>

Defined(data, f) == f \in DOMAIN data /\ data[f] # <<>>

\* after is the metadata setRunMeta(runId, data) must leave at time t when
\* before is what was stored (<<>> for none).
IsPatched(before, runId, data, t, after) ==
    /\ after.id = runId
    /\ "timestamp" \in DOMAIN after
    /\ after.timestamp = IF Defined(data, "timestamp") THEN data.timestamp[1]
                          ELSE IF before # <<>> THEN before[1].timestamp
                          ELSE toTimestamp(runId, t)
    /\ \A f \in DOMAIN data \ {"id", "timestamp"} : Field(after, f) = data[f]
    /\ before # <<>> => \A f \in DOMAIN before[1] \ DOMAIN data : Field(after, f) = <<before[1][f]>>

\* C24: after setRunMeta(id, patch) the run is registered, and its stored
\* metadata has the id of the argument, a timestamp (the patch's if it
\* gives one, else the stored one, else the one derived from the id),
\* every field of the patch, and every stored field the patch does not
\* mention.
C24_SetRunMetaMerges ==
    [][last'.op = "setRunMeta" =>
           /\ last'.run \in Registered(kv')
           /\ HasKey(kv', runKey(last'.run, "meta"))
           /\ IsPatched(readNullable(kv, runKey(last'.run, "meta")), last'.run, last'.data,
                        now, kv'[runKey(last'.run, "meta")])]_vars

\* A patch with another id, an undefined timestamp and a kind was merged
\* into metadata that had a status.
C24_Witness ==
    /\ last.op = "setRunMeta"
    /\ Defined(last.data, "id") /\ last.data.id[1] # last.run
    /\ "timestamp" \in DOMAIN last.data /\ last.data.timestamp = <<>>
    /\ Defined(last.data, "kind")
    /\ "status" \notin DOMAIN last.data
    /\ kv[runKey(last.run, "meta")].status = "running"
    /\ now = 2

-----------------------------------------------------------------------------
(* The pointer, read or created *)

\* C25: getOrCreateCurrentRunId() returns the pointer and writes nothing
\* when the pointer names a registered run; otherwise it allocates an id,
\* registers it with metadata and stores it as the pointer.  Either way
\* the returned id is registered and a following getCurrentRunId()
\* returns it.
C25_GetOrCreateReturnsRegisteredPointer ==
    [][last'.op = "getOrCreateCurrentRunId" =>
           /\ IF Pointer(kv) # Null /\ Pointer(kv) \in Registered(kv)
              THEN last'.ret = Pointer(kv) /\ kv' = kv
              ELSE /\ last'.ret = createRunId(now)
                   /\ HasKey(kv', runKey(last'.ret, "meta"))
                   /\ Pointer(kv') = last'.ret
           /\ last'.ret \in Registered(kv')
           /\ getCurrentRunId(kv', now).ret = last'.ret
           /\ getCurrentRunId(kv', now).kv = kv']_vars

\* The pointer named a run that a cleanup had deleted, and a new run was
\* allocated in its place.
C25_Witness ==
    /\ last.op = "getOrCreateCurrentRunId"
    /\ last.read # Null
    /\ last.read # last.ret
    /\ last.read \notin Registered(kv)
    /\ Pointer(kv) = last.ret

\* The pointer named a registered run and was returned.
C25_WitnessReturned ==
    /\ last.op = "getOrCreateCurrentRunId"
    /\ last.read = last.ret
    /\ Len(readKV(kv, RUNS_KEY, <<>>)) > 1

-----------------------------------------------------------------------------
(* Allocation of run ids *)

\* The step calls createRunId: startNewCurrentRun() without a preferred
\* id, or getOrCreateCurrentRunId() without a pointer to a registered run.
Allocates ==
    \/ last'.op = "startNewCurrentRun" /\ last'.preferred = Null
    \/ last'.op = "getOrCreateCurrentRunId"
           /\ (Pointer(kv) = Null \/ Pointer(kv) \notin Registered(kv))

Allocated == IF last'.op = "startNewCurrentRun" THEN last'.run ELSE last'.ret

\* C26: an id allocated by createRunId differs from every id already
\* registered.
C26_AllocatedIdsAreFresh == [][Allocates => Allocated \notin Registered(kv)]_vars

\* The id allocated is the clock's reading, whatever the registry holds.
AllocatedIdIsTheClock == [][Allocates => Allocated = ToString(now)]_vars

\* The id that startNewCurrentRun() allocates differs from the id that a
\* getOrCreateCurrentRunId() just before it allocated.  Violated: the clock
\* need not advance between two allocations.
ConsecutiveAllocationsDiffer ==
    [][Allocates /\ last'.op = "startNewCurrentRun"
           /\ last.op = "getOrCreateCurrentRunId" /\ last.read = Null
           => Allocated # last.ret]_vars

-----------------------------------------------------------------------------
(* Ranks *)

DistinctPrs(evals) == Cardinality(PrSet(evals)) = Len(evals)

\* ranks[i] is the rank that row i gives on one side, evals being that
\* side's evaluations.
RanksOfSide(evals, rows, ranks) ==
    /\ \A i \in 1..Len(rows) : ranks[i] = <<>> <=> rows[i].pr_number \notin PrSet(evals)
    /\ DistinctPrs(evals) =>
           /\ {ranks[i][1] : i \in {j \in 1..Len(rows) : ranks[j] # <<>>}} = 1..Len(evals)
           /\ Cardinality({j \in 1..Len(rows) : ranks[j] # <<>>}) = Len(evals)
           /\ \A i, j \in 1..Len(rows), x, y \in 1..Len(evals) :
                  /\ evals[x].pr_number = rows[i].pr_number
                  /\ evals[y].pr_number = rows[j].pr_number
                  /\ comparisonScore(evals[x]) > comparisonScore(evals[y])
                  => ranks[i][1] < ranks[j][1]

\* C27: in getRunComparison, the ranks of a run whose evaluations have
\* distinct pr_numbers are exactly 1..n, an item with a strictly higher
\* comparison score has a strictly smaller rank within its run, and rank_a
\* (rank_b) is null exactly for the items absent from run A (run B).
C27_RanksArePermutation ==
    last.op = "getRunComparison" =>
        /\ RanksOfSide(getEvaluations(kv, last.a), last.ret.rows,
                       [i \in 1..Len(last.ret.rows) |-> last.ret.rows[i].rank_a])
        /\ RanksOfSide(getEvaluations(kv, last.b), last.ret.rows,
                       [i \in 1..Len(last.ret.rows) |-> last.ret.rows[i].rank_b])

\* Run A holds pr 1 below pr 2 in score, run B holds pr 2 only: pr 2 has
\* rank 1 in both, pr 1 has rank 2 in A and none in B.
C27_Witness ==
    /\ last.op = "getRunComparison"
    /\ getEvaluations(kv, last.a) = <<Evaluation(1, 600000), Evaluation(2, 800000)>>
    /\ getEvaluations(kv, last.b) = <<Evaluation(2, 600000)>>
    /\ \E i, j \in 1..Len(last.ret.rows) :
           /\ last.ret.rows[i].pr_number = 1
           /\ last.ret.rows[i].rank_a = <<2>> /\ last.ret.rows[i].rank_b = <<>>
           /\ last.ret.rows[j].pr_number = 2
           /\ last.ret.rows[j].rank_a = <<1>> /\ last.ret.rows[j].rank_b = <<1>>

-----------------------------------------------------------------------------
(* Concurrent appends *)

StoredRace == getEvaluations(kv, RaceRun)

AllReturned == Returned = Procs /\ \A p \in Procs : pending[p].pc = "idle"

\* C28: two concurrent appendEvaluation calls on one run with different
\* pr_numbers are not serialized.  Once both have returned, the stored
\* list holds the evaluation of the call that wrote last and nothing but
\* appended evaluations, each at most once; the evaluation of the earlier
\* writer may be missing.
C28_LaterWriterWins ==
    AllReturned =>
        /\ Range(StoredRace) \cap RaceEvs(last.proc) # {}
        /\ Range(StoredRace) \subseteq UNION {RaceEvs(p) : p \in Procs}
        /\ DistinctPrs(StoredRace)

\* Both calls returned and only the later writer's evaluation is stored.
C28_Witness ==
    /\ AllReturned
    /\ last.proc = 2
    /\ StoredRace = <<Evaluation(2, 600000)>>
    /\ RaceRun \in Registered(kv)

\* Serialized calls would leave both evaluations.  Violated.
BothAppendsStored == AllReturned => PrSet(StoredRace) = Procs

-----------------------------------------------------------------------------
(* Cleanup against concurrent writers *)

\* Request p issues deleteRun's closing write of the registry.
WritesRegistryBack(p) ==
    pending[p].pc = "deleteRunRegistryWrite" /\ pending'[p].pc # "deleteRunRegistryWrite"

\* C29: cleanupRuns() is not isolated from concurrent writers.  Each
\* deleteRun of the cleanup writes back the registry it read at its start
\* less its own run, whatever has been registered since, and it touches the
\* keys of no other run; so a write that completes in between on a run the
\* cleanup did not decide to delete loses its registry entry.
C29_CleanupOverwritesRegistry ==
    [][\A p \in Procs : WritesRegistryBack(p) =>
           /\ readKV(kv', RUNS_KEY, <<>>) = FilterOut(pending[p].existing, pending[p].run)
           /\ pending[p].run \notin Registered(kv')
           /\ \A runId \in RunIds \ {pending[p].run}, kind \in DataKinds :
                  HasKey(kv', runKey(runId, kind)) = HasKey(kv, runKey(runId, kind))]_vars

\* appendEvaluation on the legacy run started after the cleanup had decided
\* to delete run "1" only, and returned; the cleanup has finished its
\* deletes: the evaluation is stored and the legacy run is not registered.
C29_Witness ==
    /\ last.op = "appendEvaluation" /\ last.run = LEGACY_RUN_ID
    /\ \E q \in Procs :
           /\ InCleanup(q)
           /\ pending[q].pc = "cleanupPointer"
           /\ pending[q].decided = <<"1">>
    /\ \A p \in Procs : pending[p].op # "appendEvaluation"
    /\ Len(readKV(kv, runKey(LEGACY_RUN_ID, "evaluations"), <<>>)) = 1
    /\ LEGACY_RUN_ID \notin Registered(kv)

\* A write that returned is registered once the cleanup's deletes are over.
\* Violated.
ReturnedWritesStayRegistered ==
    last.op = "appendEvaluation"
        /\ (\A p \in Procs : pending[p].op \notin {"appendEvaluation", "deleteRun"})
        /\ (\A q \in Procs : InCleanup(q) => last.run \notin Range(pending[q].decided))
        => last.run \in Registered(kv)

-----------------------------------------------------------------------------
(* Table creation *)

\* C30: within one process the table-creation step is executed at most
\* once, store calls that start together before the first initialization
\* has finished included, and no call that starts after a successful
\* initialization executes it.
C30_TableCreatedAtMostOnce ==
    /\ [](Created <= 1)
    /\ [][pending.initialized => Created' = Created]_vars

\* A call that starts once initialized is set goes to its statement.
CallsAfterInitializationSkipIt ==
    [][\A p \in Procs :
           pending.initialized /\ pending.calls[p].pc = "idle"
               => pending'.calls[p].pc # "createTable"]_vars

\* Every execution but the first belongs to a call that passed the test of
\* initialized before the first execution: no more executions than calls
\* in flight at the same time.
CreatedAtMostOncePerOverlappingCall == Created <= MaxProcs

\* The flag is set exactly when the statement has been executed.
InitializedIffCreated == pending.initialized <=> Created > 0

-----------------------------------------------------------------------------
(* The migration's trigger *)

\* A legacy collection is non-empty: a list with an element, or a present
\* summary or ranking document.
NonEmptyLegacy(s) ==
    \/ \E kind \in ListKinds : HasKey(s, legacyKey(kind)) /\ s[legacyKey(kind)] # <<>>
    \/ \E kind \in AccessorKinds \ ListKinds : HasKey(s, legacyKey(kind))

\* s2 is s with the registry [legacy] and a legacy metadata record.
IsMigrationOf(s, s2) ==
    /\ Registry(s2) = <<LEGACY_RUN_ID>>
    /\ HasKey(s2, runKey(LEGACY_RUN_ID, "meta"))
    /\ s2[runKey(LEGACY_RUN_ID, "meta")].id = LEGACY_RUN_ID
    /\ "timestamp" \in DOMAIN s2[runKey(LEGACY_RUN_ID, "meta")]
    /\ DOMAIN s2 = DOMAIN s \cup {RUNS_KEY, runKey(LEGACY_RUN_ID, "meta")}
    /\ \A key \in DOMAIN s \ {RUNS_KEY, runKey(LEGACY_RUN_ID, "meta")} : s2[key] = s[key]

\* C31: getRunIds() on an empty registry registers the legacy run iff a
\* legacy collection is non-empty; then the registry becomes [legacy] and
\* a legacy metadata record with id legacy and a timestamp is written;
\* empty lists and absent singletons leave the store unchanged.
C31_MigrationIffLegacyData ==
    [][last'.op = "getRunIds" /\ Registry(kv) = <<>> =>
           IF NonEmptyLegacy(kv)
           THEN IsMigrationOf(kv, kv') /\ last'.ret = <<LEGACY_RUN_ID>>
           ELSE kv' = kv /\ last'.ret = <<>>]_vars

\* getRunIds() migrated on account of the ranking document alone, the
\* three lists stored empty.
C31_Witness ==
    /\ last.op = "getRunIds"
    /\ last.ret = <<LEGACY_RUN_ID>>
    /\ \A kind \in ListKinds : HasKey(kv, legacyKey(kind)) /\ kv[legacyKey(kind)] = <<>>
    /\ HasKey(kv, LEGACY_RANKING_KEY)
    /\ ~HasKey(kv, LEGACY_SUMMARY_KEY)

\* getRunIds() found empty lists only and wrote nothing.
C31_WitnessNoData ==
    /\ last.op = "getRunIds"
    /\ last.ret = <<>>
    /\ DOMAIN kv = {legacyKey(kind) : kind \in ListKinds}

-----------------------------------------------------------------------------
(* What a cleanup leaves of the runs it deleted *)

\* C32: for every id that cleanupRuns() reports in deleted_run_ids, no key
\* of that run remains in the store (metadata, summary, evaluations,
\* clusters, ranking, agent_trace, prompt_bundle), for the legacy run as
\* for namespaced runs, and the id is absent from the registry.
C32_DeletedRunsLeaveNoKey ==
    last.op = "cleanupRuns" =>
        \A id \in Range(last.ret.deleted_run_ids) :
            /\ id \notin Registered(kv)
            /\ \A kind \in DataKinds : ~HasKey(kv, runKey(id, kind))
            /\ id = LEGACY_RUN_ID => \A kind \in AccessorKinds : ~HasKey(kv, legacyKey(kind))

\* The same of the namespaced runs, and of the legacy run its
\* un-namespaced keys and its registry entry.
DeletedRunsLeaveNoKeyButLegacyNamespace ==
    last.op = "cleanupRuns" =>
        \A id \in Range(last.ret.deleted_run_ids) :
            /\ id \notin Registered(kv)
            /\ id # LEGACY_RUN_ID => \A kind \in DataKinds : ~HasKey(kv, runKey(id, kind))
            /\ id = LEGACY_RUN_ID => \A kind \in AccessorKinds : ~HasKey(kv, legacyKey(kind))

\* A cleanup deleted a namespaced run.
NamespacedRunDeleted ==
    /\ last.op = "cleanupRuns"
    /\ "1" \in Range(last.ret.deleted_run_ids)

-----------------------------------------------------------------------------
(* Lifecycle events *)

StoredMeta(s, runId) == readNullable(s, runKey(runId, "meta"))

\* C33: appendRunEvent(id, event) with the event completed or failed sets
\* the run's status to the event's name and stores ended_at when the event
\* carries a string ended_at, keeping id, timestamp and every other stored
\* metadata field of the run; any other event leaves the store unchanged.
C33_EventsPatchStatus ==
    [][last'.op = "appendRunEvent" =>
           IF last'.event.event \in {"completed", "failed"}
           THEN /\ StoredMeta(kv', last'.run) # <<>>
                /\ StoredMeta(kv', last'.run)[1].status = last'.event.event
                /\ StoredMeta(kv', last'.run)[1].id = last'.run
                /\ last'.event.ended_at.type = "string" =>
                       Field(StoredMeta(kv', last'.run)[1], "ended_at")
                           = <<last'.event.ended_at.value>>
                /\ StoredMeta(kv, last'.run) # <<>> =>
                       \A f \in DOMAIN StoredMeta(kv, last'.run)[1] \ {"status", "ended_at"} :
                           Field(StoredMeta(kv', last'.run)[1], f)
                               = <<StoredMeta(kv, last'.run)[1][f]>>
                /\ StoredMeta(kv, last'.run) # <<>> /\ last'.event.ended_at.type # "string" =>
                       Field(StoredMeta(kv', last'.run)[1], "ended_at")
                           = Field(StoredMeta(kv, last'.run)[1], "ended_at")
           ELSE kv' = kv]_vars

\* A run with a kind and an earlier ended_at failed, the event's ended_at
\* a number: status failed, kind, timestamp and ended_at as stored.
C33_Witness ==
    /\ last.op = "appendRunEvent"
    /\ last.event = [event |-> "failed", ended_at |-> [type |-> "number"]]
    /\ StoredMeta(kv, last.run) # <<>>
    /\ StoredMeta(kv, last.run)[1].status = "failed"
    /\ Field(StoredMeta(kv, last.run)[1], "kind") = <<"baseline">>
    /\ Field(StoredMeta(kv, last.run)[1], "ended_at") = <<"e1">>

\* An event that is neither completed nor failed arrived for a run that
\* is not registered, and the store is empty still.
C33_WitnessOtherEvent ==
    /\ last.op = "appendRunEvent"
    /\ last.event.event = "started"
    /\ kv = <<>>

-----------------------------------------------------------------------------
(* The registry under concurrent writers *)

\* C34: in every reachable state, whatever the interleaving of the backend
\* calls of concurrent ensureRun calls (on the same or on different ids),
\* of the legacy migration and of deleteRun, the registry list holds no id
\* more than once.
C34_RegistryHasNoDuplicate ==
    \A id \in RunIds : Count(Registry(kv), id) <= 1

\* Two first-writers of the same id: one has read a registry without the
\* id and is about to write, the other has registered the id meanwhile.
C34_Witness ==
    \E p \in Procs :
        /\ pending[p].pc = "ensureRunRegistryWrite"
        /\ pending[p].run \in Registered(kv)
        /\ pending[p].run \notin Range(pending[p].existing)

\* Two first-writers of different ids have both written the registry and
\* one registration is lost.
C34_WitnessLostRegistration ==
    /\ \A p \in Procs : pending[p].pc = "ensureRunMetaRead" /\ pending[p].op = "appendEvaluation"
    /\ pending[1].run # pending[2].run
    /\ Len(Registry(kv)) = 1
    /\ ~hasLegacyData(kv)

-----------------------------------------------------------------------------
(* Evaluations under concurrent pushes *)

\* C35: in every reachable state, whatever the interleaving of the backend
\* calls of concurrent evaluation pushes (single evaluations and batches)
\* on runs whose lists started without duplicates, no stored evaluations
\* list holds two records with the same pr_number.
C35_NoDuplicatePrNumber ==
    \A runId \in EvalRunIds :
        /\ DistinctPrs(readKV(kv, runKey(runId, "evaluations"), <<>>))
        /\ DistinctPrs(getEvaluations(kv, runId))

\* Two pushes of the same pr_number overlap on run "1": the stored list
\* holds pr_numbers 1 and 2, and a request that read the collection when
\* it was empty is about to write its own list of pr_number 1.
C35_Witness ==
    \E p \in Procs :
        /\ pending[p].pc = "setEvaluations"
        /\ pending[p].run = "1"
        /\ PrSet(pending[p].data) = {1}
        /\ PrSet(readKV(kv, runKey("1", "evaluations"), <<>>)) = {1, 2}
        /\ last.op = "push" /\ last.proc # p

-----------------------------------------------------------------------------
(* The frame of the write accessors *)

WriteOps == {"setCollection", "setPromptBundle", "appendEvaluation", "setRunMeta"}

\* The key that the write accessor of the step targets.
TargetKey(l) ==
    runKey(l.run, CASE l.op = "setCollection" -> l.kind
                    [] l.op = "setPromptBundle" -> "prompt_bundle"
                    [] l.op = "appendEvaluation" -> "evaluations"
                    [] l.op = "setRunMeta" -> "meta")

SameAt(s, s2, key) == readNullable(s, key) = readNullable(s2, key)

\* The registry is empty and legacy data is stored: the next getRunIds()
\* migrates.
Migrates(s) == Registry(s) = <<>> /\ hasLegacyData(s)

\* C36 as stated: a write accessor directed at run X leaves every key unchanged but
\* the key of X it targets, the registry and X's metadata; it leaves the
\* registry as it was or appends X to it, and leaves X's metadata as it
\* was when X had metadata (unless the metadata is its target).
C36_WritesTouchOnlyTheirRun ==
    [][last'.op \in WriteOps =>
           /\ \A key \in (DOMAIN kv \cup DOMAIN kv')
                            \ {TargetKey(last'), RUNS_KEY, runKey(last'.run, "meta")} :
                  SameAt(kv, kv', key)
           /\ Registry(kv') \in {Registry(kv), Append(Registry(kv), last'.run)}
           /\ HasKey(kv, runKey(last'.run, "meta")) /\ last'.op # "setRunMeta" =>
                  SameAt(kv, kv', runKey(last'.run, "meta"))]_vars

\* C36, amended: the same, the lazy migration counted: on an empty registry
\* with legacy data stored the accessor first registers the legacy run and
\* writes the legacy run's metadata.
C36_WritesTouchOnlyTheirRunOrMigrate ==
    [][last'.op \in WriteOps =>
           LET registry == IF Migrates(kv) THEN <<LEGACY_RUN_ID>> ELSE Registry(kv)
               migrated == IF Migrates(kv) THEN {runKey(LEGACY_RUN_ID, "meta")} ELSE {}
           IN  /\ \A key \in (DOMAIN kv \cup DOMAIN kv')
                                \ ({TargetKey(last'), RUNS_KEY, runKey(last'.run, "meta")}
                                      \cup migrated) :
                      SameAt(kv, kv', key)
               /\ Registry(kv') = IF last'.run \in Range(registry) THEN registry
                                  ELSE Append(registry, last'.run)
               /\ \A key \in migrated : HasKey(kv', key)
               /\ HasKey(kv, runKey(last'.run, "meta")) /\ last'.op # "setRunMeta"
                      /\ ~(Migrates(kv) /\ last'.run = LEGACY_RUN_ID) =>
                      SameAt(kv, kv', runKey(last'.run, "meta"))]_vars

\* A collection of the legacy id was written while run "1" held a
\* collection, run "2" was registered and current, and legacy data stored.
C36_Witness ==
    /\ last.op \in {"setCollection", "setPromptBundle"}
    /\ last.run = LEGACY_RUN_ID
    /\ HasKey(kv, TargetKey(last))
    /\ \E kind \in AccessorKinds : HasKey(kv, runKey("1", kind))
    /\ Registered(kv) = RunIds
    /\ Pointer(kv) = "2"
    /\ hasLegacyData(kv)

\* A write accessor of run "1" was the first to read the registry, over
\* legacy data: it registered the legacy run before its own.
C36_WitnessMigration ==
    /\ last.op \in WriteOps
    /\ last.run = "1"
    /\ Registry(kv) = <<LEGACY_RUN_ID, "1">>
    /\ HasKey(kv, runKey(LEGACY_RUN_ID, "meta"))

-----------------------------------------------------------------------------
(* Backend calls that fail one at a time *)

\* C37: no step of ensureRun, of getRunIds() with its legacy migration or
\* of getCurrentRunId(), any of whose reads and writes may fail, removes an
\* id from the registry or changes a pointer that names a registered run.
C37_FailuresRemoveNothing ==
    [][/\ Registered(kv) \subseteq Registered(kv')
       /\ Pointer(kv) \in Registered(kv) => Pointer(kv') = Pointer(kv)]_vars

-----------------------------------------------------------------------------
(* The runs a cleanup keeps *)

C38_WitnessTie ==
    /\ last.op = "cleanupRuns"
    /\ Len(last.counts) >= 2
    /\ last.counts[1].count > 0
    /\ last.counts[2].count = last.counts[1].count
    /\ last.ret.kept_run_ids = <<last.counts[1].id>>

-----------------------------------------------------------------------------
(* The pointer under concurrent requests *)

\* C39: whenever a step deletes the pointer key while getCurrentRunId()
\* runs concurrently with startNewCurrentRun() or
\* getOrCreateCurrentRunId(), the id the pointer held at that moment was
\* absent from the registry.
C39_ClearedPointerWasDangling ==
    [][(HasKey(kv, CURRENT_RUN_ID_KEY) /\ ~HasKey(kv', CURRENT_RUN_ID_KEY)) =>
           Pointer(kv) \notin Registered(kv)]_vars

-----------------------------------------------------------------------------
(* Metadata under collection writes *)

CollectionWriteOps == {"setCollection", "setPromptBundle", "appendEvaluation"}

\* C40: a collection write to a run that has a metadata record leaves the
\* record as it is, status included; the store itself (a collection write
\* or a lifecycle event) never turns a stored status into running.
C40_CollectionWritesKeepMetadata ==
    [][/\ (last'.op \in CollectionWriteOps /\ HasKey(kv, runKey(last'.run, "meta"))) =>
              SameAt(kv, kv', runKey(last'.run, "meta"))
       /\ last'.op \in CollectionWriteOps \cup {"appendRunEvent"} =>
              \A runId \in EvalRunIds :
                  (/\ StoredMeta(kv, runId) # <<>>
                   /\ StoredMeta(kv', runId) # <<>>
                   /\ Field(StoredMeta(kv', runId)[1], "status") = <<"running">>) =>
                      Field(StoredMeta(kv, runId)[1], "status") = <<"running">>]_vars

\* A collection was written to a run whose status a patch or an event had
\* set to completed or failed, and whose record holds more than ensureRun
\* writes.
C40_Witness ==
    /\ last.op \in CollectionWriteOps
    /\ StoredMeta(kv, last.run) # <<>>
    /\ Field(StoredMeta(kv, last.run)[1], "status") \in {<<"completed">>, <<"failed">>}
    /\ Field(StoredMeta(kv, last.run)[1], "ended_at") = <<"e1">>
    /\ HasKey(kv, TargetKey(last))

====
